---- MODULE Spec2Model ----
(***************************************************************************)
(* Borrow / return workflow of the library backend.                        *)
(*                                                                         *)
(* The handlers of internal/api (borrowBookTransactionHandler,             *)
(* returnBookTransactionHandler, updateBookHandler,                        *)
(* updateTransactionHandler, deleteTransactionHandler) run as concurrent   *)
(* requests against the                                                    *)
(* document store.  Every store call of a handler is one step; the reads   *)
(* a handler issues back to back inside one store transaction are served   *)
(* from the same snapshot and are taken together in the first step.  A     *)
(* request runs on a slot; when its handler returns, the slot is free      *)
(* again and the response is kept in last.                                 *)
(*                                                                         *)
(* The store is the MongoDB deployment the handlers talk to: a             *)
(* multi-document transaction reads from the snapshot taken at its first   *)
(* operation, buffers its writes until CommitTransaction, and a write to a *)
(* document that another transaction has written (uncommitted, or          *)
(* committed after the snapshot) fails with a write-conflict error of the  *)
(* driver.  Operations issued without a session are single-document        *)
(* auto-commit operations.                                                 *)
(***************************************************************************)
EXTENDS Integers, FiniteSets, Sequences, TLC

\* ---- bounds --------------------------------------------------------------
\* NumProcs requests are in flight at a time, MaxReqs arrive in all.
NumProcs == 2
MaxReqs == 3
\* A book has at most MaxBookCopies copies; a request names at most as many.
MaxBookCopies == 2
\* The clock, where it runs, runs from 1 to MaxTime.
MaxTime == 3

Procs == 1..NumProcs
Patrons == {"p1", "p2"}
Books == {"b1"}
\* Times are counted in half days.
Day == 2
\* The due dates a borrow or an administrative update names, where no other
\* is said: validateDueDate admits them whatever the clock shows.
DueDates == {MaxTime + Day + 1, MaxTime + Day + 2}

TransactionStatusBorrowed == "borrowed"
TransactionStatusReturned == "returned"

VARIABLES books, txs, patrons, now, arrived, pc, req, book, trans, tid, sess, log, wins, last, named, summary, memBooks, memPatron, memResult, mw, tokens, activate, spent

vars == <<books, txs, patrons, now, arrived, pc, req, book, trans, tid, sess, log, wins, last, named, summary, memBooks, memPatron, memResult, mw, tokens, activate, spent>>

\* ---- helpers -------------------------------------------------------------
EmptyFn == [x \in {} |-> 0]

Put(f, k, v) == [x \in (DOMAIN f) \cup {k} |-> IF x = k THEN v ELSE f[x]]

Overlay(f, g) == [x \in (DOMAIN f) \cup (DOMAIN g) |-> IF x \in DOMAIN g THEN g[x] ELSE f[x]]

Remove(f, k) == [x \in (DOMAIN f) \ {k} |-> f[x]]

Min(S) == CHOOSE x \in S : \A y \in S : x <= y

Max(S) == CHOOSE x \in S : \A y \in S : x >= y

NoReq == [kind |-> "none", patron |-> "-", book |-> "-", copies |-> 0, id |-> 0,
          due |-> 0, at |-> 0]

NoBook == [copies |-> 0, borrowedCopies |-> 0, createdAt |-> 0, updatedAt |-> 0,
           version |-> 0]

\* The body of the response of getPatronHandler: the patron, the fine of each
\* of the transactions listed, the total.
NoSummary == [patron |-> "-", fines |-> EmptyFn, totalFine |-> 0]

\* The in-memory library: the Patron before NewPatron, and the outcome of the
\* last of its operations (fine: the value CalcFine returned).
NoPatron == [BorrowedBooks |-> EmptyFn, DiscountPercentage |-> 0]

NoResult == [op |-> "-", title |-> "-", err |-> "-", fine |-> 0]

\* A request on its way through the middlewares of a route: the Authorization
\* header and what the lookups of it will find, the admin and the patron set
\* in the context ("none": no value, "nil": a nil pointer), the statuses
\* written, the calls of authenticate's next and of the handler.
NoCall == [stage |-> "idle", header |-> "-", lookup |-> "-", activated |-> FALSE,
           permitted |-> FALSE, admin |-> "none", patron |-> "none",
           written |-> <<>>, nexts |-> 0, handled |-> 0]

NoSess == [active |-> FALSE, snapB |-> EmptyFn, snapT |-> EmptyFn,
           wB |-> EmptyFn, wT |-> EmptyFn, dirtyB |-> {}, dirtyT |-> {}]

\* ---- the store -----------------------------------------------------------
\* session.StartTransaction followed by the first operation: the snapshot.
StartTransaction == [active |-> TRUE, snapB |-> books, snapT |-> txs,
                     wB |-> EmptyFn, wT |-> EmptyFn, dirtyB |-> {}, dirtyT |-> {}]

\* What a transaction reads: its snapshot overlaid with its own writes.
ViewB(s) == Overlay(s.snapB, s.wB)

ViewT(s) == Overlay(s.snapT, s.wT)

\* A store that lets the later of two transactions overwrite the earlier.
WriteConflictB_Never(p, b) == FALSE

\* A write of transaction p to a document fails with the driver's
\* write-conflict error when another transaction holds an uncommitted write
\* on it, or one was committed after p's snapshot.
WriteConflictB(p, b) ==
    \/ b \in sess[p].dirtyB
    \/ \E q \in Procs \ {p} : b \in DOMAIN sess[q].wB

WriteConflictT(p, id) ==
    \/ id \in sess[p].dirtyT
    \/ \E q \in Procs \ {p} : id \in DOMAIN sess[q].wT

\* A write outside a transaction waits while a transaction holds an
\* uncommitted write on the document.
LockedB(b) == \E q \in Procs : b \in DOMAIN sess[q].wB

LockedT(id) == \E q \in Procs : id \in DOMAIN sess[q].wT

\* A commit that the open transactions with older snapshots do not notice.
Invalidate_Quiet(p, bs, ts) == [sess EXCEPT ![p] = NoSess]

\* Committed writes of documents bs / ts become visible: every other open
\* transaction whose snapshot predates them will conflict on these documents.
Invalidate(p, bs, ts) ==
    [q \in Procs |->
        IF q = p THEN NoSess
        ELSE IF sess[q].active
             THEN [sess[q] EXCEPT !.dirtyB = @ \cup bs, !.dirtyT = @ \cup ts]
             ELSE sess[q]]

\* A handler without the deferred EndSession: the transaction stays open.
EndSession_Leak(p) == sess

\* defer session.EndSession: an open transaction is aborted, its buffered
\* writes are dropped.
EndSession(p) == [sess EXCEPT ![p] = NoSess]

\* ---- data layer: internal/data -------------------------------------------
\* Times are integers; 0 is the zero time.Time.
\* The transaction of a borrow built without the due date of the request.
NewTransaction_NoDueDate(patron, b, t, due) ==
    [patron |-> patron, book |-> b, status |-> TransactionStatusBorrowed,
     borrowedAt |-> t, dueDate |-> 0, returnedAt |-> 0,
     createdAt |-> 0, updatedAt |-> 0, version |-> 0]

\* Transaction as built by borrowBookTransactionHandler: &data.Transaction{
\* PatronID, BookID, DueDate: input.Body.DueDate, Status: borrowed,
\* BorrowedAt: time.Now()}.
NewTransaction(patron, b, t, due) ==
    [patron |-> patron, book |-> b, status |-> TransactionStatusBorrowed,
     borrowedAt |-> t, dueDate |-> due, returnedAt |-> 0,
     createdAt |-> 0, updatedAt |-> 0, version |-> 0]

NoTrans == [patron |-> "-", book |-> "-", status |-> "-",
            borrowedAt |-> 0, dueDate |-> 0, returnedAt |-> 0,
            createdAt |-> 0, updatedAt |-> 0, version |-> 0]

\* TransactionModel.Insert: CreatedAt and UpdatedAt are set to time.Now(), then
\* InsertOne stores the document.
TransactionInsert(t, at) == [t EXCEPT !.createdAt = at, !.updatedAt = at]

\* buildBookFilter for the filters used here: {_id} and, in Update, {version}.
\* AnyVersion stands for a nil Version pointer.
AnyVersion == -1

buildBookFilter(view, id, version) ==
    {x \in DOMAIN view : x = id /\ (version = AnyVersion \/ view[x].version = version)}

\* buildBookUpdater without the $inc of version.
buildBookUpdater_NoInc(stored, bk, at) ==
    [stored EXCEPT !.copies = bk.copies, !.borrowedCopies = bk.borrowedCopies,
                   !.updatedAt = at]

\* buildBookUpdater: $set of the listed fields (of which copies and
\* borrowed_copies are kept here) from the in-memory book and of updated_at to
\* time.Now(), $inc version by 1.
buildBookUpdater(stored, bk, at) ==
    [stored EXCEPT !.copies = bk.copies, !.borrowedCopies = bk.borrowedCopies,
                   !.updatedAt = at, !.version = stored.version + 1]

\* BookModel.Update: filter.Version = &book.Version; MatchedCount of UpdateOne.
BookUpdateMatched(view, id, bk) == buildBookFilter(view, id, bk.version)

\* buildTransactionFilter for the fields used here; "*" and AnyVersion / AnyID
\* stand for nil pointers.
AnyID == -1

buildTransactionFilter(view, f) ==
    {i \in DOMAIN view :
        /\ f.id = AnyID \/ i = f.id
        /\ f.patron = "*" \/ view[i].patron = f.patron
        /\ f.book = "*" \/ view[i].book = f.book
        /\ f.status = "*" \/ view[i].status = f.status
        /\ f.version = AnyVersion \/ view[i].version = f.version}

\* buildTransactionUpdater without status among the fields it sets.
buildTransactionUpdater_NoStatus(stored, t, at) ==
    [stored EXCEPT !.dueDate = t.dueDate, !.returnedAt = t.returnedAt,
                   !.updatedAt = at, !.version = stored.version + 1]

\* buildTransactionUpdater: $set due_date, returned_at and status from the
\* in-memory transaction and updated_at to time.Now(), $inc version by 1.
buildTransactionUpdater(stored, t, at) ==
    [stored EXCEPT !.dueDate = t.dueDate, !.returnedAt = t.returnedAt,
                   !.status = t.status, !.updatedAt = at,
                   !.version = stored.version + 1]

\* A patron as stored: of the fields buildPatronUpdater sets, name and
\* activated are kept.
NewPatron ==
    [name |-> "n0", activated |-> FALSE, createdAt |-> 0, updatedAt |-> 0, version |-> 0]

\* The activatePatronHandler of one process, before its first call: the step
\* it is at, the token of the request, the patron ID and the patron it has
\* read, and the status of its response (0 while there is none).
NoActivation ==
    [stage |-> "idle", plaintext |-> "-", patronID |-> "-", patron |-> NewPatron,
     status |-> 0]

\* An updater that writes the in-memory patron as a whole.
buildPatronUpdater_Replace(stored, pt, at) ==
    [pt EXCEPT !.updatedAt = at, !.version = stored.version + 1]

\* buildPatronUpdater: $set of the listed fields from the in-memory patron and
\* of updated_at to time.Now(), $inc version by 1.
buildPatronUpdater(stored, pt, at) ==
    [stored EXCEPT !.name = pt.name, !.activated = pt.activated, !.updatedAt = at,
                   !.version = stored.version + 1]

\* TransactionModel.Update: filter.Version = &transaction.Version.
TransactionUpdateMatched(view, id, t) ==
    buildTransactionFilter(view, [id |-> id, patron |-> "*", book |-> "*",
                                  status |-> "*", version |-> t.version])

\* isBookUnavailable that admits one copy too many.
isBookUnavailable_OffByOne(bk, requestedCopies) ==
    bk.borrowedCopies + requestedCopies > bk.copies + 1

\* ---- api helpers ---------------------------------------------------------
\* validateDueDate that admits the two ends of the window.
validateDueDate_NotStrict(t, at) ==
    t = 0 \/ (t >= at + Day /\ t <= at + 14 * Day)

\* validateDueDate, called by Resolve before the handler runs: a due date
\* (0 stands for nil) is valid when it is After(time.Now() + 24h) and
\* Before(time.Now() + 14 * 24h).
validateDueDate(t, at) ==
    t = 0 \/ (t > at + Day /\ t < at + 14 * Day)

isBookUnavailable(bk, requestedCopies) ==
    bk.borrowedCopies + requestedCopies > bk.copies

\* Amounts of money are counted in 1/Day of a unit, so that the hours / 24 of
\* calculateFine is exact.  app.cost.overdueFine: 15 a day.
overdueFine == 15 * Day

\* calculateFine without the test for an overdue transaction.
calculateFine_NoTest(transaction, rate, at) ==
    ((at - transaction.dueDate) * rate) \div Day

\* calculateFine: daysOverdue := time.Since(transaction.DueDate).Hours() / 24,
\* a fraction of days; the fine is daysOverdue * overdueFine if daysOverdue > 0.
calculateFine(transaction, rate, at) ==
    IF at - transaction.dueDate > 0
    THEN ((at - transaction.dueDate) * rate) \div Day
    ELSE 0

\* The sum of f over the set S.
RECURSIVE SumOver(_, _)
SumOver(f, S) ==
    IF S = {} THEN 0
    ELSE LET x == CHOOSE y \in S : TRUE IN f[x] + SumOver(f, S \ {x})

\* processPatronTransactions: a fine for every transaction of the list, and
\* their sum.
processPatronTransactions(view, ids, rate, at) ==
    LET fines == [id \in ids |-> calculateFine(view[id], rate, at)]
    IN [fines |-> fines, totalFine |-> SumOver(fines, ids)]

\* Paginator: valid() is Page > 0 /\ PageSize > 0; Paginator{} is not.
NoPaginator == [page |-> 0, pageSize |-> 0]

\* The first n elements of the set S of numbers, in their order.
RECURSIVE FirstOf(_, _)
FirstOf(S, n) ==
    IF n <= 0 \/ S = {} THEN {}
    ELSE {Min(S)} \cup FirstOf(S \ {Min(S)}, n - 1)

\* TransactionModel.GetAll: Find with the filter; a valid paginator adds
\* SetLimit(PageSize) and SetSkip((Page - 1) * PageSize).
GetAllTransactions(view, f, paginator) ==
    LET found == buildTransactionFilter(view, f)
    IN IF paginator.page > 0 /\ paginator.pageSize > 0
       THEN FirstOf(found, paginator.page * paginator.pageSize)
               \ FirstOf(found, (paginator.page - 1) * paginator.pageSize)
       ELSE found

\* ---- request bookkeeping -------------------------------------------------
\* A request arrives on the first free slot; at most MaxReqs requests arrive.
Free(p) == pc[p] = "idle"

Arrives(p) == Free(p) /\ arrived < MaxReqs /\ \A q \in Procs : q < p => ~Free(q)

\* Patrons are interchangeable: the first patron that any request names is
\* called p1.
Names(patron) == patron \notin Patrons \/ patron = "p1" \/ named

\* The response of the handler of request r: which handler it was, for whom,
\* and its result.
Response(r, rs) == [kind |-> r.kind, patron |-> r.patron, book |-> r.book, res |-> rs]

\* The HTTP status the caller gets.  A handler that returns huma.ErrorXXX sets
\* it; any other error a handler returns is answered with 500.  Of the
\* handlers here only updateBookHandler turns ErrEditConflict into
\* huma.Error409Conflict; the workflows return the error of Update as it is.
StatusCode(kind, rs) ==
    CASE rs = "OK" -> 200
      [] rs = "NotFound" -> 404
      [] rs = "Conflict" -> 409
      [] rs = "Unprocessable" -> 422
      [] rs = "EditConflict" /\ kind = "update" -> 409
      [] OTHER -> 500

\* The handler of slot p returns rs: its locals are gone, the slot is free.
Finish(p, rs) ==
    /\ pc' = [pc EXCEPT ![p] = "idle"]
    /\ req' = [req EXCEPT ![p] = NoReq]
    /\ book' = [book EXCEPT ![p] = NoBook]
    /\ trans' = [trans EXCEPT ![p] = NoTrans]
    /\ tid' = [tid EXCEPT ![p] = 0]
    /\ last' = Response(req[p], rs)
    /\ UNCHANGED <<named, patrons, summary, memBooks, memPatron, memResult, mw, tokens, activate, spent>>

\* The handler of slot p goes on to label l with locals bk, t and id.
Goto(p, l, bk, t, id) ==
    /\ pc' = [pc EXCEPT ![p] = l]
    /\ book' = [book EXCEPT ![p] = bk]
    /\ trans' = [trans EXCEPT ![p] = t]
    /\ tid' = [tid EXCEPT ![p] = id]
    /\ UNCHANGED <<req, last, named, patrons, summary, memBooks, memPatron, memResult, mw, tokens, activate, spent>>

\* Request r arrives on slot p and its handler returns rs at once.
Reject(p, r, rs) ==
    /\ arrived' = arrived + 1
    /\ last' = Response(r, rs)
    /\ named' = (named \/ r.patron \in Patrons)
    /\ UNCHANGED <<pc, req, book, trans, tid, patrons, summary, memBooks, memPatron, memResult, mw, tokens, activate, spent>>

\* Request r arrives on slot p and goes on to label l with locals bk, t, id.
Begin(p, r, bk, t, id, l) ==
    /\ arrived' = arrived + 1
    /\ pc' = [pc EXCEPT ![p] = l]
    /\ req' = [req EXCEPT ![p] = r]
    /\ book' = [book EXCEPT ![p] = bk]
    /\ trans' = [trans EXCEPT ![p] = t]
    /\ tid' = [tid EXCEPT ![p] = id]
    /\ named' = (named \/ r.patron \in Patrons)
    /\ UNCHANGED <<last, patrons, summary, memBooks, memPatron, memResult, mw, tokens, activate, spent>>

\* The _id InsertOne gives a new document: one no document has had.
NewID ==
    Max({0} \cup DOMAIN txs \cup DOMAIN log
            \cup UNION {DOMAIN sess[q].wT : q \in Procs}) + 1

\* History kept for the properties only: wins counts, for a book and a
\* version of it, the Updates that were issued on that version and succeeded.
Won(k) == IF k \in DOMAIN wins THEN wins[k] ELSE 0

LogWin(p) == Put(wins, <<req[p].book, book[p].version>>,
                 Won(<<req[p].book, book[p].version>>) + 1)

Init ==
    /\ \E c \in 1..MaxBookCopies :
          books = [b \in Books |-> [NoBook EXCEPT !.copies = c]]
    /\ txs = EmptyFn
    /\ patrons = [x \in Patrons |-> NewPatron]
    /\ now = 1
    /\ arrived = 0
    /\ pc = [p \in Procs |-> "idle"]
    /\ req = [p \in Procs |-> NoReq]
    /\ book = [p \in Procs |-> NoBook]
    /\ trans = [p \in Procs |-> NoTrans]
    /\ tid = [p \in Procs |-> 0]
    /\ sess = [p \in Procs |-> NoSess]
    /\ log = EmptyFn
    /\ wins = EmptyFn
    /\ named = FALSE
    /\ spent = {}
    /\ activate = [p \in Procs |-> NoActivation]
    /\ tokens = {}
    /\ mw = NoCall
    /\ memResult = NoResult
    /\ memPatron = NoPatron
    /\ memBooks = EmptyFn
    /\ summary = NoSummary
    /\ last = Response(NoReq, "-")

\* ---- borrowBookTransactionHandler ----------------------------------------
\* The first step of a borrow without Patrons.Get.
BorrowGet_NoPatronsGet(p, patron, b, n, due) ==
    /\ Arrives(p)
    /\ Names(patron)
    /\ LET s == StartTransaction
           r == [kind |-> "borrow", patron |-> patron, book |-> b, copies |-> n, id |-> 0,
                 due |-> due, at |-> now]
       IN IF ~validateDueDate(due, now)
          THEN Reject(p, r, "Unprocessable") /\ UNCHANGED sess
          ELSE IF buildBookFilter(ViewB(s), b, AnyVersion) = {}
          THEN Reject(p, r, "NotFound") /\ UNCHANGED sess
          ELSE IF isBookUnavailable(ViewB(s)[b], n)
          THEN Reject(p, r, "Conflict") /\ UNCHANGED sess
          ELSE /\ Begin(p, r, ViewB(s)[b], NoTrans, 0, "b_insert")
               /\ sess' = [sess EXCEPT ![p] = s]
    /\ UNCHANGED <<books, txs, now, log, wins>>

\* Resolve (validateDueDate of the body's due date, answered with 422), then
\* StartSession, StartTransaction, Books.Get, Patrons.Get, isBookUnavailable.
BorrowGet(p, patron, b, n, due) ==
    /\ Arrives(p)
    /\ Names(patron)
    /\ LET s == StartTransaction
           r == [kind |-> "borrow", patron |-> patron, book |-> b, copies |-> n, id |-> 0,
                 due |-> due, at |-> now]
       IN IF ~validateDueDate(due, now)
          THEN Reject(p, r, "Unprocessable") /\ UNCHANGED sess
          ELSE IF buildBookFilter(ViewB(s), b, AnyVersion) = {} \/ patron \notin DOMAIN patrons
          THEN Reject(p, r, "NotFound") /\ UNCHANGED sess
          ELSE IF isBookUnavailable(ViewB(s)[b], n)
          THEN Reject(p, r, "Conflict") /\ UNCHANGED sess
          ELSE /\ Begin(p, r, ViewB(s)[b], NoTrans, 0, "b_insert")
               /\ sess' = [sess EXCEPT ![p] = s]
    /\ UNCHANGED <<books, txs, now, log, wins>>

\* The Insert of the borrow called with the request context instead of the
\* session context: an auto-commit insert.
BorrowInsert_NoSession(p) ==
    /\ pc[p] = "b_insert"
    /\ txs' = Put(txs, NewID, TransactionInsert(
                  NewTransaction(req[p].patron, req[p].book, now, req[p].due), now))
    /\ Goto(p, "b_update", book[p], trans[p], NewID)
    /\ UNCHANGED <<books, now, arrived, sess, log, wins>>

\* transaction := &data.Transaction{... BorrowedAt: time.Now()}; Transactions.Insert.
BorrowInsert(p) ==
    /\ pc[p] = "b_insert"
    /\ sess' = [sess EXCEPT ![p].wT =
                  Put(@, NewID, TransactionInsert(
                      NewTransaction(req[p].patron, req[p].book, now, req[p].due), now))]
    /\ Goto(p, "b_update", book[p], trans[p], NewID)
    /\ UNCHANGED <<books, txs, now, arrived, log, wins>>

\* The book Update of both workflows: the in-memory book bk is written through
\* BookModel.Update inside the transaction of p; on success go to label next.
BookUpdateInTx(p, bk, next) ==
    LET b == req[p].book
        view == ViewB(sess[p])
    IN IF WriteConflictB(p, b)
       THEN Finish(p, "WriteConflict") /\ sess' = EndSession(p)
       ELSE IF BookUpdateMatched(view, b, bk) = {}
       THEN Finish(p, "EditConflict") /\ sess' = EndSession(p)
       ELSE /\ Goto(p, next, bk, trans[p], tid[p])
            /\ sess' = [sess EXCEPT ![p].wB = Put(@, b, buildBookUpdater(view[b], bk, now))]

\* The book update of a borrow that, when it fails, starts the workflow over:
\* a new store transaction, the book read again, the insert next.
BorrowUpdateBook_Retry(p) ==
    /\ pc[p] = "b_update"
    /\ LET b == req[p].book
           bk == [book[p] EXCEPT !.borrowedCopies = @ + req[p].copies]
           view == ViewB(sess[p])
       IN IF WriteConflictB(p, b) \/ BookUpdateMatched(view, b, bk) = {}
          THEN /\ Goto(p, "b_insert", books[b], trans[p], 0)
               /\ sess' = [sess EXCEPT ![p] = StartTransaction]
          ELSE /\ Goto(p, "commit", bk, trans[p], tid[p])
               /\ sess' = [sess EXCEPT ![p].wB = Put(@, b, buildBookUpdater(view[b], bk, now))]
    /\ UNCHANGED <<books, txs, now, arrived, log, wins>>

\* book.BorrowedCopies = book.BorrowedCopies + input.Body.Copies; Books.Update.
BorrowUpdateBook(p) ==
    /\ pc[p] = "b_update"
    /\ BookUpdateInTx(p, [book[p] EXCEPT !.borrowedCopies = @ + req[p].copies], "commit")
    /\ UNCHANGED <<books, txs, now, arrived, log, wins>>

\* History of the committed workflows, kept for the properties only: for
\* every transaction id the borrow that created it (its copies, the book's
\* borrowedCopies before it and the book's version after it), the number of
\* returns committed on it and the copies of the last of them.
LogCommit(p) ==
    IF req[p].kind = "borrow"
    THEN Put(log, tid[p], [patron |-> req[p].patron, book |-> req[p].book,
                           copies |-> req[p].copies,
                           pre |-> books[req[p].book].borrowedCopies,
                           bver |-> books[req[p].book].version + 1,
                           returns |-> 0, retCopies |-> 0])
    ELSE IF tid[p] \in DOMAIN log
         THEN [log EXCEPT ![tid[p]].returns = @ + 1, ![tid[p]].retCopies = req[p].copies]
         ELSE log

\* session.CommitTransaction: the buffered writes become visible together.
CommitTransaction(p) ==
    /\ pc[p] = "commit"
    /\ books' = Overlay(books, sess[p].wB)
    /\ txs' = Overlay(txs, sess[p].wT)
    /\ sess' = Invalidate(p, DOMAIN sess[p].wB, DOMAIN sess[p].wT)
    /\ log' = LogCommit(p)
    /\ wins' = LogWin(p)
    /\ Finish(p, "OK")
    /\ UNCHANGED <<now, arrived>>

\* CommitTransaction returns an error: the handler returns it and EndSession
\* aborts the transaction.
CommitFail(p) ==
    /\ pc[p] = "commit"
    /\ sess' = EndSession(p)
    /\ Finish(p, "Error")
    /\ UNCHANGED <<books, txs, now, arrived, log, wins>>

\* The caller's context is cancelled (or a store call times out) while the
\* workflow is in flight: the pending store call returns an error, the handler
\* returns it and EndSession aborts the transaction.
Cancel(p) ==
    /\ pc[p] \in {"b_insert", "b_update", "r_updtx", "r_updbook"}
    /\ sess' = EndSession(p)
    /\ Finish(p, "Error")
    /\ UNCHANGED <<books, txs, now, arrived, log, wins>>

\* ---- returnBookTransactionHandler ----------------------------------------
\* The first step of a return whose Transactions.Get has no status in its
\* filter.
ReturnGet_AnyStatus(p, patron, b, n) ==
    /\ Arrives(p)
    /\ Names(patron)
    /\ LET s == StartTransaction
           r == [kind |-> "return", patron |-> patron, book |-> b, copies |-> n, id |-> 0,
                 due |-> 0, at |-> now]
           found == buildTransactionFilter(ViewT(s),
                       [id |-> AnyID, patron |-> patron, book |-> b,
                        status |-> "*", version |-> AnyVersion])
       IN IF buildBookFilter(ViewB(s), b, AnyVersion) = {} \/ patron \notin DOMAIN patrons
          THEN Reject(p, r, "NotFound") /\ UNCHANGED sess
          ELSE IF found = {}
          THEN Reject(p, r, "NotFound") /\ UNCHANGED sess
          ELSE /\ Begin(p, r, ViewB(s)[b], ViewT(s)[Min(found)], Min(found), "r_updtx")
               /\ sess' = [sess EXCEPT ![p] = s]
    /\ UNCHANGED <<books, txs, now, log, wins>>

\* StartSession, StartTransaction, Books.Get, Patrons.Get, Transactions.Get with
\* {status: borrowed, book_id, patron_id}; FindOne takes the first match.
ReturnGet(p, patron, b, n) ==
    /\ Arrives(p)
    /\ Names(patron)
    /\ LET s == StartTransaction
           r == [kind |-> "return", patron |-> patron, book |-> b, copies |-> n, id |-> 0,
                 due |-> 0, at |-> now]
           found == buildTransactionFilter(ViewT(s),
                       [id |-> AnyID, patron |-> patron, book |-> b,
                        status |-> TransactionStatusBorrowed, version |-> AnyVersion])
       IN IF buildBookFilter(ViewB(s), b, AnyVersion) = {} \/ patron \notin DOMAIN patrons
          THEN Reject(p, r, "NotFound") /\ UNCHANGED sess
          ELSE IF found = {}
          THEN Reject(p, r, "NotFound") /\ UNCHANGED sess
          ELSE /\ Begin(p, r, ViewB(s)[b], ViewT(s)[Min(found)], Min(found), "r_updtx")
               /\ sess' = [sess EXCEPT ![p] = s]
    /\ UNCHANGED <<books, txs, now, log, wins>>

\* The transaction Update of the return: the in-memory transaction t is
\* written through TransactionModel.Update inside the transaction of p.
TransactionUpdateInTx(p, t) ==
    LET view == ViewT(sess[p])
    IN IF WriteConflictT(p, tid[p])
       THEN Finish(p, "WriteConflict") /\ sess' = EndSession(p)
       ELSE IF TransactionUpdateMatched(view, tid[p], t) = {}
       THEN Finish(p, "EditConflict") /\ sess' = EndSession(p)
       ELSE /\ Goto(p, "r_updbook", book[p], t, tid[p])
            /\ sess' = [sess EXCEPT ![p].wT =
                          Put(@, tid[p], buildTransactionUpdater(view[tid[p]], t, now))]

\* The return that leaves ReturnedAt at its zero value.
ReturnUpdateTransaction_NoStamp(p) ==
    /\ pc[p] = "r_updtx"
    /\ TransactionUpdateInTx(p, [trans[p] EXCEPT !.status = TransactionStatusReturned])
    /\ UNCHANGED <<books, txs, now, arrived, log, wins>>

\* transaction.ReturnedAt = time.Now(); transaction.Status = returned;
\* Transactions.Update with filter {_id}.
ReturnUpdateTransaction(p) ==
    /\ pc[p] = "r_updtx"
    /\ TransactionUpdateInTx(p, [trans[p] EXCEPT !.returnedAt = now,
                                                 !.status = TransactionStatusReturned])
    /\ UNCHANGED <<books, txs, now, arrived, log, wins>>

\* The book Update of the return called with the request context instead of
\* the session context: an auto-commit update.
ReturnUpdateBook_NoSession(p) ==
    /\ pc[p] = "r_updbook"
    /\ LET b == req[p].book
           bk == [book[p] EXCEPT !.borrowedCopies = @ - req[p].copies]
       IN /\ ~LockedB(b)
          /\ IF BookUpdateMatched(books, b, bk) = {}
             THEN /\ Finish(p, "EditConflict")
                  /\ sess' = EndSession(p)
                  /\ UNCHANGED books
             ELSE /\ Goto(p, "commit", bk, trans[p], tid[p])
                  /\ books' = Put(books, b, buildBookUpdater(books[b], bk, now))
                  /\ sess' = [q \in Procs |->
                                IF q # p /\ sess[q].active
                                THEN [sess[q] EXCEPT !.dirtyB = @ \cup {b}]
                                ELSE sess[q]]
    /\ UNCHANGED <<txs, now, arrived, log, wins>>

\* book.BorrowedCopies = book.BorrowedCopies - input.Body.Copies; Books.Update.
ReturnUpdateBook(p) ==
    /\ pc[p] = "r_updbook"
    /\ BookUpdateInTx(p, [book[p] EXCEPT !.borrowedCopies = @ - req[p].copies], "commit")
    /\ UNCHANGED <<books, txs, now, arrived, log, wins>>

\* ---- updateBookHandler ---------------------------------------------------
\* The catalog update that builds the book from the body alone, without the
\* borrowed copies of the book it read.
UpdateBookGet_FromBody(p, b, c) ==
    /\ Arrives(p)
    /\ LET r == [kind |-> "update", patron |-> "-", book |-> b, copies |-> c, id |-> 0,
                 due |-> 0, at |-> now]
       IN IF buildBookFilter(books, b, AnyVersion) = {}
          THEN Reject(p, r, "NotFound")
          ELSE Begin(p, r, [books[b] EXCEPT !.copies = c, !.borrowedCopies = 0],
                     NoTrans, 0, "u_update")
    /\ UNCHANGED <<books, txs, now, sess, log, wins>>

\* Books.Get without a session, then the fields present in the body are set on
\* the in-memory book: input.Body.Copies = c (a body without copies writes
\* the book as a body with the copies just read does).
UpdateBookGet(p, b, c) ==
    /\ Arrives(p)
    /\ LET r == [kind |-> "update", patron |-> "-", book |-> b, copies |-> c, id |-> 0,
                 due |-> 0, at |-> now]
       IN IF buildBookFilter(books, b, AnyVersion) = {}
          THEN Reject(p, r, "NotFound")
          ELSE Begin(p, r, [books[b] EXCEPT !.copies = c], NoTrans, 0, "u_update")
    /\ UNCHANGED <<books, txs, now, sess, log, wins>>

\* Books.Update without a session: one auto-commit UpdateOne.
UpdateBookUpdate(p) ==
    /\ pc[p] = "u_update"
    /\ LET b == req[p].book
       IN /\ ~LockedB(b)
          /\ IF BookUpdateMatched(books, b, book[p]) = {}
             THEN /\ Finish(p, "EditConflict")
                  /\ UNCHANGED <<books, sess, wins>>
             ELSE /\ Finish(p, "OK")
                  /\ books' = Put(books, b, buildBookUpdater(books[b], book[p], now))
                  /\ sess' = Invalidate(p, {b}, {})
                  /\ wins' = LogWin(p)
    /\ UNCHANGED <<txs, now, arrived, log>>

\* ---- updateTransactionHandler --------------------------------------------
\* The administrative update without the check of the status.
UpdateTransaction_NoStatusCheck(p, id, due) ==
    /\ Arrives(p)
    /\ LET r == [kind |-> "updatetx", patron |-> "-", book |-> "-", copies |-> 0, id |-> id,
                 due |-> due, at |-> now]
           found == buildTransactionFilter(txs,
                       [id |-> id, patron |-> "*", book |-> "*", status |-> "*",
                        version |-> AnyVersion])
       IN IF ~validateDueDate(due, now)
          THEN Reject(p, r, "Unprocessable")
          ELSE IF found = {}
          THEN Reject(p, r, "NotFound")
          ELSE Reject(p, r, "OK")
    /\ UNCHANGED <<books, txs, now, sess, log, wins>>

\* Resolve (validateDueDate of the body's due date, if it has one), then
\* Transactions.Get with filter {_id} without a session; a due date in the
\* body (due # 0) is refused with huma.Error422UnprocessableEntity when the
\* transaction is returned and is set on the in-memory transaction otherwise;
\* the in-memory transaction is the response.  The handler makes no call that
\* writes to the store.
UpdateTransaction(p, id, due) ==
    /\ Arrives(p)
    /\ LET r == [kind |-> "updatetx", patron |-> "-", book |-> "-", copies |-> 0, id |-> id,
                 due |-> due, at |-> now]
           found == buildTransactionFilter(txs,
                       [id |-> id, patron |-> "*", book |-> "*", status |-> "*",
                        version |-> AnyVersion])
       IN IF ~validateDueDate(due, now)
          THEN Reject(p, r, "Unprocessable")
          ELSE IF found = {}
          THEN Reject(p, r, "NotFound")
          ELSE IF due # 0 /\ txs[id].status = TransactionStatusReturned
          THEN Reject(p, r, "Unprocessable")
          ELSE Reject(p, r, "OK")
    /\ UNCHANGED <<books, txs, now, sess, log, wins>>

\* ---- getPatronHandler ----------------------------------------------------
\* The patron summary that lists the first page of the transactions only.
GetPatron_FirstPage(p, x) ==
    /\ Arrives(p)
    /\ LET r == [NoReq EXCEPT !.kind = "getpatron", !.patron = x, !.at = now]
           ids == GetAllTransactions(txs,
                     [id |-> AnyID, patron |-> x, book |-> "*", status |-> "*",
                      version |-> AnyVersion], [page |-> 1, pageSize |-> 1])
           sum == processPatronTransactions(txs, ids, overdueFine, now)
       IN IF x \notin DOMAIN patrons
          THEN /\ last' = Response(r, "NotFound")
               /\ summary' = NoSummary
          ELSE /\ last' = Response(r, "OK")
               /\ summary' = [patron |-> x, fines |-> sum.fines, totalFine |-> sum.totalFine]
    /\ arrived' = arrived + 1
    /\ UNCHANGED <<books, txs, patrons, now, pc, req, book, trans, tid, sess, log, wins, named, memBooks, memPatron, memResult, mw, tokens, activate, spent>>

\* Patrons.Get, Transactions.GetAll with filter {patron_id} and Paginator{},
\* processPatronTransactions; the response is the summary.
GetPatron(p, x) ==
    /\ Arrives(p)
    /\ LET r == [NoReq EXCEPT !.kind = "getpatron", !.patron = x, !.at = now]
           ids == GetAllTransactions(txs,
                     [id |-> AnyID, patron |-> x, book |-> "*", status |-> "*",
                      version |-> AnyVersion], NoPaginator)
           sum == processPatronTransactions(txs, ids, overdueFine, now)
       IN IF x \notin DOMAIN patrons
          THEN /\ last' = Response(r, "NotFound")
               /\ summary' = NoSummary
          ELSE /\ last' = Response(r, "OK")
               /\ summary' = [patron |-> x, fines |-> sum.fines, totalFine |-> sum.totalFine]
    /\ arrived' = arrived + 1
    /\ UNCHANGED <<books, txs, patrons, now, pc, req, book, trans, tid, sess, log, wins, named, memBooks, memPatron, memResult, mw, tokens, activate, spent>>

\* ---- deleteTransactionHandler --------------------------------------------
\* Transactions.Delete with filter {_id} without a session: one DeleteOne.
DeleteTransaction(p, id) ==
    /\ Arrives(p)
    /\ LET r == [kind |-> "delete", patron |-> "-", book |-> "-", copies |-> 0, id |-> id,
                 due |-> 0, at |-> now]
           found == buildTransactionFilter(txs,
                       [id |-> id, patron |-> "*", book |-> "*", status |-> "*",
                        version |-> AnyVersion])
       IN IF found = {}
          THEN /\ Reject(p, r, "NotFound")
               /\ UNCHANGED <<txs, sess>>
          ELSE /\ ~LockedT(id)
               /\ Reject(p, r, "OK")
               /\ txs' = Remove(txs, id)
               /\ sess' = Invalidate(p, {}, {id})
    /\ UNCHANGED <<books, now, log, wins>>

\* ---- getBookHandler, deleteBookHandler -----------------------------------
\* Books.Get with the filter of the ID: 404 for ErrDocumentNotFound.
GetBook(p, b) ==
    /\ Arrives(p)
    /\ LET r == [NoReq EXCEPT !.kind = "getbook", !.book = b, !.at = now]
       IN IF buildBookFilter(books, b, AnyVersion) = {}
          THEN Reject(p, r, "NotFound")
          ELSE Reject(p, r, "OK")
    /\ UNCHANGED <<books, txs, sess, now, log, wins>>

\* A delete that answers with success and leaves the book in the collection.
DeleteBook_Soft(p, b) ==
    /\ Arrives(p)
    /\ LET r == [NoReq EXCEPT !.kind = "deletebook", !.book = b, !.at = now]
       IN IF buildBookFilter(books, b, AnyVersion) = {}
          THEN Reject(p, r, "NotFound")
          ELSE Reject(p, r, "OK")
    /\ UNCHANGED <<books, txs, sess, now, log, wins>>

\* Books.Delete with the filter of the ID: DeleteOne; 404 for
\* ErrDocumentNotFound (DeletedCount = 0).  The transactions are not read.
DeleteBook(p, b) ==
    /\ Arrives(p)
    /\ LET r == [NoReq EXCEPT !.kind = "deletebook", !.book = b, !.at = now]
       IN IF buildBookFilter(books, b, AnyVersion) = {}
          THEN /\ Reject(p, r, "NotFound")
               /\ UNCHANGED <<books, sess>>
          ELSE /\ ~LockedB(b)
               /\ Reject(p, r, "OK")
               /\ books' = Remove(books, b)
               /\ sess' = Invalidate(p, {b}, {})
    /\ UNCHANGED <<txs, now, log, wins>>

\* ---- specification -------------------------------------------------------
Next ==
    \E p \in Procs :
        \/ \E patron \in Patrons, b \in Books, n \in 1..MaxBookCopies :
              BorrowGet(p, patron, b, n, Min(DueDates))
        \/ BorrowInsert(p)
        \/ BorrowUpdateBook(p)
        \/ \E patron \in Patrons, b \in Books, n \in 1..MaxBookCopies : ReturnGet(p, patron, b, n)
        \/ ReturnUpdateTransaction(p)
        \/ ReturnUpdateBook(p)
        \/ CommitTransaction(p)
        \/ CommitFail(p)
        \/ Cancel(p)
        \/ \E b \in Books, c \in 1..MaxBookCopies : UpdateBookGet(p, b, c)
        \/ UpdateBookUpdate(p)
        \/ \E id \in 1..MaxReqs : DeleteTransaction(p, id)

Spec == Init /\ [][Next]_vars

TypeOK ==
    /\ \A b \in DOMAIN books : books[b].version \in Nat
    /\ \A p \in Procs : pc[p] \in {"idle", "b_insert", "b_update", "r_updtx",
                                   "r_updbook", "commit", "u_update"}

\* The borrow workflow alone, on a book with one copy, one copy a request:
\* the race of section 8 of the specification.
InitRace == Init /\ \A b \in DOMAIN books : books[b].copies = 1

NextRace ==
    \E p \in Procs :
        \/ \E patron \in Patrons, b \in Books : BorrowGet(p, patron, b, 1, Min(DueDates))
        \/ BorrowInsert(p)
        \/ BorrowUpdateBook(p)
        \/ CommitTransaction(p)

SpecRace == InitRace /\ [][NextRace]_vars

\* Ids that name no patron and no book of the store.
UnknownPatron == "p0"

UnknownBook == "b0"

\* The workflows of one patron, one copy a request, with their due dates,
\* next to the catalog and the administrative operations; requests may name a
\* patron or a book that does not exist.
InitAdmin == Init /\ \A b \in DOMAIN books : books[b].copies = MaxBookCopies

NextAdmin ==
    \E p \in Procs :
        \/ \E patron \in {"p1", UnknownPatron}, b \in Books \cup {UnknownBook}, due \in DueDates :
              BorrowGet(p, patron, b, 1, due)
        \/ BorrowInsert(p)
        \/ BorrowUpdateBook(p)
        \/ \E patron \in {"p1", UnknownPatron}, b \in Books \cup {UnknownBook} :
              ReturnGet(p, patron, b, 1)
        \/ ReturnUpdateTransaction(p)
        \/ ReturnUpdateBook(p)
        \/ CommitTransaction(p)
        \/ CommitFail(p)
        \/ Cancel(p)
        \/ \E b \in Books, c \in 1..MaxBookCopies : UpdateBookGet(p, b, c)
        \/ UpdateBookUpdate(p)
        \/ \E id \in 1..MaxReqs, due \in {0} \cup DueDates : UpdateTransaction(p, id, due)
        \/ \E id \in 1..MaxReqs : DeleteTransaction(p, id)

SpecAdmin == InitAdmin /\ [][NextAdmin]_vars

\* ---- the data layer called directly ---------------------------------------
\* Update of the three models as the callers of internal/data (and its tests)
\* may call it: with a filter that names the document and an entity of their
\* making, whose fields need not be those of the stored document.
EntityVersions == {0, 1}

BookEntities ==
    [copies : 1..MaxBookCopies, borrowedCopies : {0, 1}, createdAt : {0, 1},
     updatedAt : {0}, version : EntityVersions]

TransactionEntities ==
    [patron : Patrons, book : Books \cup {UnknownBook},
     status : {TransactionStatusBorrowed, TransactionStatusReturned},
     borrowedAt : {0, 1}, dueDate : DueDates, returnedAt : {0}, createdAt : {0, 1},
     updatedAt : {0}, version : EntityVersions]

PatronEntities ==
    [name : {"n0", "n1"}, activated : BOOLEAN, createdAt : {0, 1}, updatedAt : {0},
     version : EntityVersions]

\* The answer of a call of the data layer on the document id of a collection.
Called(op, id, rs) == [kind |-> op, patron |-> "-", book |-> id, res |-> rs]

\* An Update that stores the entity when no document matches the filter.
BookModelUpdate_Upsert(b, bk) ==
    /\ IF BookUpdateMatched(books, b, bk) # {}
       THEN books' = Put(books, b, buildBookUpdater(books[b], bk, now))
       ELSE books' = Put(books, b, [bk EXCEPT !.updatedAt = now])
    /\ last' = Called("Book.Update", b, "OK")
    /\ UNCHANGED <<txs, patrons, now, arrived, pc, req, book, trans, tid, sess,
                   log, wins, named, summary, memBooks, memPatron, memResult, mw, tokens, activate, spent>>

\* BookModel.Update outside a store transaction: UpdateOne with the filter of
\* the ID and the entity's version; ErrEditConflict if MatchedCount is 0.
BookModelUpdate(b, bk) ==
    /\ IF BookUpdateMatched(books, b, bk) # {}
       THEN /\ books' = Put(books, b, buildBookUpdater(books[b], bk, now))
            /\ last' = Called("Book.Update", b, "OK")
       ELSE /\ books' = books
            /\ last' = Called("Book.Update", b, "EditConflict")
    /\ UNCHANGED <<txs, patrons, now, arrived, pc, req, book, trans, tid, sess,
                   log, wins, named, summary, memBooks, memPatron, memResult, mw, tokens, activate, spent>>

\* TransactionModel.Update outside a store transaction.
TransactionModelUpdate(id, t) ==
    /\ IF TransactionUpdateMatched(txs, id, t) # {}
       THEN /\ txs' = Put(txs, id, buildTransactionUpdater(txs[id], t, now))
            /\ last' = Called("Transaction.Update", ToString(id), "OK")
       ELSE /\ txs' = txs
            /\ last' = Called("Transaction.Update", ToString(id), "EditConflict")
    /\ UNCHANGED <<books, patrons, now, arrived, pc, req, book, trans, tid, sess,
                   log, wins, named, summary, memBooks, memPatron, memResult, mw, tokens, activate, spent>>

\* PatronModel.Update: filter.Version = &patron.Version; UpdateOne.
PatronModelUpdate(x, pt) ==
    /\ IF x \in DOMAIN patrons /\ patrons[x].version = pt.version
       THEN /\ patrons' = Put(patrons, x, buildPatronUpdater(patrons[x], pt, now))
            /\ last' = Called("Patron.Update", x, "OK")
       ELSE /\ patrons' = patrons
            /\ last' = Called("Patron.Update", x, "EditConflict")
    /\ UNCHANGED <<books, txs, now, arrived, pc, req, book, trans, tid, sess,
                   log, wins, named, summary, memBooks, memPatron, memResult, mw, tokens, activate, spent>>

\* One book, one transaction of it and one patron, stored at time 1; the
\* Updates are made when the clock has run to MaxTime.
InitUpdater ==
    /\ \E c \in 1..MaxBookCopies :
          books = [b \in Books |-> [NoBook EXCEPT !.copies = c, !.borrowedCopies = 1,
                                                  !.createdAt = 1, !.updatedAt = 1]]
    /\ \E b \in Books, due \in DueDates :
          txs = [id \in {1} |-> TransactionInsert(NewTransaction("p1", b, 1, due), 1)]
    /\ patrons = [x \in {"p1"} |-> [NewPatron EXCEPT !.createdAt = 1, !.updatedAt = 1]]
    /\ now = MaxTime
    /\ arrived = 0
    /\ pc = [p \in Procs |-> "idle"]
    /\ req = [p \in Procs |-> NoReq]
    /\ book = [p \in Procs |-> NoBook]
    /\ trans = [p \in Procs |-> NoTrans]
    /\ tid = [p \in Procs |-> 0]
    /\ sess = [p \in Procs |-> NoSess]
    /\ log = EmptyFn
    /\ wins = EmptyFn
    /\ named = FALSE
    /\ spent = {}
    /\ activate = [p \in Procs |-> NoActivation]
    /\ tokens = {}
    /\ mw = NoCall
    /\ memResult = NoResult
    /\ memPatron = NoPatron
    /\ memBooks = EmptyFn
    /\ summary = NoSummary
    /\ last = Response(NoReq, "-")

NextUpdater ==
    \/ \E b \in Books \cup {UnknownBook}, bk \in BookEntities : BookModelUpdate(b, bk)
    \/ \E id \in 1..MaxReqs, t \in TransactionEntities : TransactionModelUpdate(id, t)
    \/ \E x \in Patrons, pt \in PatronEntities : PatronModelUpdate(x, pt)

SpecUpdater == InitUpdater /\ [][NextUpdater]_vars

\* time.Now() moves on between the steps of the handlers.  Times are compared
\* within a request only, so the clock is let run while a request is in flight.
Tick ==
    /\ now < MaxTime
    /\ \E p \in Procs : ~Free(p)
    /\ now' = now + 1
    /\ UNCHANGED <<books, txs, patrons, arrived, pc, req, book, trans, tid, sess,
                   log, wins, last, named, summary, memBooks, memPatron, memResult, mw, tokens, activate, spent>>

\* The borrow workflow with its due dates, under a running clock: the borrows
\* of one patron, one after the other, of books that have all their copies.
\* Next to the due dates that are always valid a borrow may name the two ends
\* of the window of validateDueDate.
InitBorrow == Init /\ \A b \in DOMAIN books : books[b].copies = MaxBookCopies

NextBorrow ==
    \/ Tick
    \/ \E p \in Procs :
        \/ \E b \in Books, n \in 1..MaxBookCopies,
                 due \in DueDates \cup {now + Day, now + 14 * Day} :
              (\A q \in Procs : Free(q)) /\ BorrowGet(p, "p1", b, n, due)
        \/ BorrowInsert(p)
        \/ BorrowUpdateBook(p)
        \/ CommitTransaction(p)
        \/ CommitFail(p)
        \/ Cancel(p)

SpecBorrow == InitBorrow /\ [][NextBorrow]_vars

\* ---- the catalog ----------------------------------------------------------
\* Requests that are served one after the other: borrows, reads and deletes
\* of books, deletes of transactions.
InitCatalog == Init /\ \A b \in DOMAIN books : books[b].copies = MaxBookCopies

NextCatalog ==
    \E p \in Procs :
        \/ \E b \in Books, n \in 1..MaxBookCopies, due \in DueDates :
              (\A q \in Procs : Free(q)) /\ BorrowGet(p, "p1", b, n, due)
        \/ BorrowInsert(p)
        \/ BorrowUpdateBook(p)
        \/ CommitTransaction(p)
        \/ CommitFail(p)
        \/ Cancel(p)
        \/ \E b \in Books \cup {UnknownBook} :
              (\A q \in Procs : Free(q)) /\ GetBook(p, b)
        \/ \E b \in Books \cup {UnknownBook} :
              (\A q \in Procs : Free(q)) /\ DeleteBook(p, b)
        \/ \E id \in 1..MaxReqs :
              (\A q \in Procs : Free(q)) /\ DeleteTransaction(p, id)

SpecCatalog == InitCatalog /\ [][NextCatalog]_vars

\* ---- the ledger -----------------------------------------------------------
\* Borrows, returns and deletes of transactions, served one after the other.
InitLedger == Init /\ \A b \in DOMAIN books : books[b].copies = MaxBookCopies

NextLedger ==
    \E p \in Procs :
        \/ \E b \in Books, n \in 1..MaxBookCopies, due \in DueDates :
              (\A q \in Procs : Free(q)) /\ BorrowGet(p, "p1", b, n, due)
        \/ BorrowInsert(p)
        \/ BorrowUpdateBook(p)
        \/ \E b \in Books, n \in 1..MaxBookCopies :
              (\A q \in Procs : Free(q)) /\ ReturnGet(p, "p1", b, n)
        \/ ReturnUpdateTransaction(p)
        \/ ReturnUpdateBook(p)
        \/ CommitTransaction(p)
        \/ CommitFail(p)
        \/ Cancel(p)
        \/ \E id \in 1..MaxReqs :
              (\A q \in Procs : Free(q)) /\ DeleteTransaction(p, id)

SpecLedger == InitLedger /\ [][NextLedger]_vars

\* ---- Insert ---------------------------------------------------------------
\* The IDs, ISBNs and e-mail addresses the callers of Insert choose from.
BookIDs == {"b1", "b2"}

ISBNs == {"i1", "i2"}

PatronIDs == {"p1", "p2"}

Emails == {"e1", "e2"}

\* A Book and a Patron as the callers of Insert make them, with the field
\* that has a unique index (CreateUniqueISBNIndex, CreateUniqueIndex).
BookOf(isbn) ==
    [isbn |-> isbn, copies |-> 1, borrowedCopies |-> 0, createdAt |-> 0,
     updatedAt |-> 0, version |-> 0]

PatronOf(email) ==
    [email |-> email, name |-> "n0", activated |-> FALSE, createdAt |-> 0, updatedAt |-> 0,
     version |-> 0]

\* BookModel.Insert: CreatedAt and UpdatedAt are time.Now(); InsertOne.  The
\* driver's error of either unique index (_id, isbn) holds "E11000 duplicate
\* key error collection" and is returned as ErrDuplicateID.
BookModelInsert(id, isbn) ==
    /\ IF id \in DOMAIN books \/ \E b \in DOMAIN books : books[b].isbn = isbn
       THEN /\ books' = books
            /\ last' = Called("Book.Insert", id, "DuplicateID")
       ELSE /\ books' = Put(books, id, [BookOf(isbn) EXCEPT !.createdAt = now,
                                                            !.updatedAt = now])
            /\ last' = Called("Book.Insert", id, "OK")
    /\ UNCHANGED <<txs, patrons, now, arrived, pc, req, book, trans, tid, sess,
                   log, wins, named, summary, memBooks, memPatron, memResult, mw, tokens, activate, spent>>

\* PatronModel.Insert: CreatedAt is time.Now(); InsertOne.  An error that
\* holds "_id_ dup key:" is ErrDuplicateID, one that holds "email_-1 dup key"
\* is ErrDuplicateEmail.
PatronModelInsert(id, email) ==
    /\ IF id \in DOMAIN patrons
       THEN /\ patrons' = patrons
            /\ last' = Called("Patron.Insert", id, "DuplicateID")
       ELSE IF \E x \in DOMAIN patrons : patrons[x].email = email
       THEN /\ patrons' = patrons
            /\ last' = Called("Patron.Insert", id, "DuplicateEmail")
       ELSE /\ patrons' = Put(patrons, id, [PatronOf(email) EXCEPT !.createdAt = now])
            /\ last' = Called("Patron.Insert", id, "OK")
    /\ UNCHANGED <<books, txs, now, arrived, pc, req, book, trans, tid, sess,
                   log, wins, named, summary, memBooks, memPatron, memResult, mw, tokens, activate, spent>>

\* Empty collections with their unique indexes.
InitInsert ==
    /\ books = EmptyFn
    /\ txs = EmptyFn
    /\ patrons = EmptyFn
    /\ now = 1
    /\ arrived = 0
    /\ pc = [p \in Procs |-> "idle"]
    /\ req = [p \in Procs |-> NoReq]
    /\ book = [p \in Procs |-> NoBook]
    /\ trans = [p \in Procs |-> NoTrans]
    /\ tid = [p \in Procs |-> 0]
    /\ sess = [p \in Procs |-> NoSess]
    /\ log = EmptyFn
    /\ wins = EmptyFn
    /\ named = FALSE
    /\ spent = {}
    /\ activate = [p \in Procs |-> NoActivation]
    /\ tokens = {}
    /\ mw = NoCall
    /\ summary = NoSummary
    /\ memBooks = EmptyFn
    /\ memPatron = NoPatron
    /\ memResult = NoResult
    /\ last = Response(NoReq, "-")

NextInsert ==
    \/ \E id \in BookIDs, isbn \in ISBNs : BookModelInsert(id, isbn)
    \/ \E id \in PatronIDs, email \in Emails : PatronModelInsert(id, email)

SpecInsert == InitInsert /\ [][NextInsert]_vars

\* ---- the middlewares (internal/api/demo.go) -------------------------------
\* The Authorization headers of a request: none, one that is not two words,
\* a scheme that is neither Bearer nor Basic, a Bearer token that fails the
\* checks of the JWT or passes them, Basic credentials that are not base64,
\* have no colon, hold the admin's password, another password, or meet a hash
\* bcrypt cannot compare.
Headers == {"none", "malformed", "other", "bearer-bad", "bearer-ok",
            "basic-undecodable", "basic-nocolon", "basic-ok", "basic-wrongpass",
            "basic-hasherr"}

\* What Patrons.Get of the token's subject, or Admins.Get of the user name,
\* returns: the document, ErrDocumentNotFound, another error.
Lookups == {"found", "notfound", "error"}

\* huma.WriteErr: the status is written to the response.
WriteErr(c, status) == [c EXCEPT !.written = Append(@, status)]

\* authenticate, up to its call of next or its return.  Every failure writes
\* an error and returns, but two: after the error of Patrons.Get (Bearer) the
\* error is written and the function goes on, sets the nil patron in the
\* context and calls next; after the error of Password.Matches (Basic) it
\* writes 500 and goes on to the test of matches, which writes 401 and returns.
Authenticate(h, lk, act, perm) ==
    /\ mw.stage \in {"idle", "done", "panic"}
    /\ LET c == [NoCall EXCEPT !.header = h, !.lookup = lk, !.activated = act,
                               !.permitted = perm]
           ends(status) == [WriteErr(c, status) EXCEPT !.stage = "done"]
           forward(d) == [d EXCEPT !.stage = "requireAuthenticatedPatron", !.nexts = 1]
       IN mw' =
            CASE h \in {"none", "malformed", "other", "bearer-bad",
                        "basic-undecodable", "basic-nocolon"} -> ends(401)
              [] h = "bearer-ok" /\ lk = "found" -> forward([c EXCEPT !.patron = "patron"])
              [] h = "bearer-ok" /\ lk = "notfound" ->
                    forward([WriteErr(c, 401) EXCEPT !.patron = "nil"])
              [] h = "bearer-ok" /\ lk = "error" ->
                    forward([WriteErr(c, 500) EXCEPT !.patron = "nil"])
              [] h \in {"basic-ok", "basic-wrongpass", "basic-hasherr"} /\ lk = "notfound" ->
                    ends(401)
              [] h \in {"basic-ok", "basic-wrongpass", "basic-hasherr"} /\ lk = "error" ->
                    ends(500)
              [] h = "basic-ok" /\ lk = "found" -> forward([c EXCEPT !.admin = "admin"])
              [] h = "basic-wrongpass" /\ lk = "found" -> ends(401)
              [] h = "basic-hasherr" /\ lk = "found" ->
                    [WriteErr(WriteErr(c, 500), 401) EXCEPT !.stage = "done"]
    /\ UNCHANGED <<books, txs, patrons, now, arrived, pc, req, book, trans, tid, sess,
                   log, wins, last, named, summary, memBooks, memPatron, memResult, tokens, activate, spent>>

\* requireAuthenticatedPatron: an admin or a patron in the context that is not
\* the anonymous one goes on (the type assertion of contextGetPatron succeeds
\* for a nil *Patron, and IsAnonymous compares the pointer); else 401.
RequireAuthenticatedPatron ==
    /\ mw.stage = "requireAuthenticatedPatron"
    /\ mw' = IF mw.admin # "none" \/ mw.patron # "none"
             THEN [mw EXCEPT !.stage = "requireActivatedPatron"]
             ELSE [WriteErr(mw, 401) EXCEPT !.stage = "done"]
    /\ UNCHANGED <<books, txs, patrons, now, arrived, pc, req, book, trans, tid, sess,
                   log, wins, last, named, summary, memBooks, memPatron, memResult, tokens, activate, spent>>

\* requireActivatedPatron: an activated admin or patron goes on, else 403; the
\* read of Activated through the nil patron panics.
RequireActivatedPatron ==
    /\ mw.stage = "requireActivatedPatron"
    /\ mw' = IF mw.admin # "none" /\ mw.activated
             THEN [mw EXCEPT !.stage = "requirePermission"]
             ELSE IF mw.patron = "nil"
             THEN [mw EXCEPT !.stage = "panic"]
             ELSE IF mw.patron # "none" /\ mw.activated
             THEN [mw EXCEPT !.stage = "requirePermission"]
             ELSE [WriteErr(mw, 403) EXCEPT !.stage = "done"]
    /\ UNCHANGED <<books, txs, patrons, now, arrived, pc, req, book, trans, tid, sess,
                   log, wins, last, named, summary, memBooks, memPatron, memResult, tokens, activate, spent>>

\* requirePermission: if the context holds an admin, next is called if the
\* admin's Permissions contain the code; else if it holds a patron, next is
\* called if the patron's do; the 403 is written in the last else only, when
\* the context holds neither.  A principal without the permission falls out
\* of its branch: nothing is written and nothing is called.
RequirePermission ==
    /\ mw.stage = "requirePermission"
    /\ mw' = IF mw.admin = "none" /\ mw.patron = "none"
             THEN [WriteErr(mw, 403) EXCEPT !.stage = "done"]
             ELSE IF mw.permitted
             THEN [mw EXCEPT !.stage = "handler"]
             ELSE [mw EXCEPT !.stage = "done"]
    /\ UNCHANGED <<books, txs, patrons, now, arrived, pc, req, book, trans, tid, sess,
                   log, wins, last, named, summary, memBooks, memPatron, memResult, tokens, activate, spent>>

\* The handler of the route: next of the last middleware.
Handler ==
    /\ mw.stage = "handler"
    /\ mw' = [mw EXCEPT !.stage = "done", !.handled = 1, !.written = Append(@, 200)]
    /\ UNCHANGED <<books, txs, patrons, now, arrived, pc, req, book, trans, tid, sess,
                   log, wins, last, named, summary, memBooks, memPatron, memResult, tokens, activate, spent>>

NextAuth ==
    \/ \E h \in Headers, lk \in Lookups, act \in BOOLEAN, perm \in BOOLEAN :
          Authenticate(h, lk, act, perm)
    \/ RequireAuthenticatedPatron
    \/ RequireActivatedPatron
    \/ RequirePermission
    \/ Handler

SpecAuth == InitInsert /\ [][NextAuth]_vars

\* ---- the patron summary ---------------------------------------------------
\* The summary is asked for at FineTime, of patrons whose transactions are due
\* ten days before, half a day before, at, and half a day after that time.
FineTime == MaxTime + 12 * Day

FineDueDates == {FineTime - 10 * Day, FineTime - 1, FineTime, FineTime + 1}

\* A transaction of book b1 due at due, as the borrow stored it a day and a
\* half before that, and, if its status is returned, as the return wrote it
\* the day before it was due.
StoredLoan(patron, due, status) ==
    LET borrowed == TransactionInsert(NewTransaction(patron, "b1", due - Day - 1, due),
                                      due - Day - 1)
    IN IF status = TransactionStatusBorrowed
       THEN borrowed
       ELSE buildTransactionUpdater(borrowed,
                [borrowed EXCEPT !.returnedAt = due - Day,
                                 !.status = TransactionStatusReturned], due - Day)

InitFine ==
    /\ books = [b \in Books |-> [NoBook EXCEPT !.copies = MaxBookCopies]]
    /\ \E n \in 0..MaxReqs :
          \E f \in [1..n -> Patrons \X FineDueDates \X {TransactionStatusBorrowed,
                                                          TransactionStatusReturned}] :
              txs = [id \in 1..n |-> StoredLoan(f[id][1], f[id][2], f[id][3])]
    /\ patrons = [x \in Patrons |-> NewPatron]
    /\ now = FineTime
    /\ arrived = 0
    /\ pc = [p \in Procs |-> "idle"]
    /\ req = [p \in Procs |-> NoReq]
    /\ book = [p \in Procs |-> NoBook]
    /\ trans = [p \in Procs |-> NoTrans]
    /\ tid = [p \in Procs |-> 0]
    /\ sess = [p \in Procs |-> NoSess]
    /\ log = EmptyFn
    /\ wins = EmptyFn
    /\ named = FALSE
    /\ spent = {}
    /\ activate = [p \in Procs |-> NoActivation]
    /\ tokens = {}
    /\ mw = NoCall
    /\ memResult = NoResult
    /\ memPatron = NoPatron
    /\ memBooks = EmptyFn
    /\ summary = NoSummary
    /\ last = Response(NoReq, "-")

NextFine ==
    \E p \in Procs, x \in Patrons \cup {UnknownPatron} : GetPatron(p, x)

SpecFine == InitFine /\ [][NextFine]_vars

\* ---- activation of a patron (internal/api/patrons.go, internal/data/tokens.go)
ScopeActivation == "activation"

\* generateToken: the patron, the expiry, the scope, a plaintext of 16 random
\* bytes and its hash, sha256.Sum256 of the plaintext.
generateToken(t, patronID, expiry, scope) ==
    [plaintext |-> t, hash |-> <<"sha256", t>>, patronID |-> patronID, expiry |-> expiry,
     scope |-> scope]

\* A TokenFilter with no field set.
NoTokenFilter ==
    [plaintext |-> "-", patronID |-> "-", hash |-> <<>>, minExpiry |-> -1, scope |-> "-"]

\* buildTokenFilter: equality on each field that is set, expiry >= MinExpiry.
buildTokenFilter(f) ==
    { k \in tokens :
        /\ f.patronID # "-" => k.patronID = f.patronID
        /\ f.plaintext # "-" => k.plaintext = f.plaintext
        /\ Len(f.hash) > 0 => k.hash = f.hash
        /\ f.minExpiry # -1 => k.expiry >= f.minExpiry
        /\ f.scope # "-" => k.scope = f.scope }

\* TokenModel.GetPatronID: FindOne, the PatronID of the token found, and
\* ErrDocumentNotFound where there is none.
GetPatronID(f) ==
    IF buildTokenFilter(f) = {} THEN "ErrDocumentNotFound"
    ELSE (CHOOSE k \in buildTokenFilter(f) : TRUE).patronID

\* A deletion that removes nothing.
DeleteAllForPatron_Keep(f) == tokens

\* TokenModel.DeleteAllForPatron: DeleteMany of the tokens the filter selects.
DeleteAllForPatron(f) == tokens \ buildTokenFilter(f)

\* activatePatronHandler, to the answer of Tokens.GetPatronID: the filter has
\* the plaintext, its hash, the scope activation and MinExpiry = time.Now();
\* ErrDocumentNotFound is answered 422.
ActivateGetPatronID(p, t) ==
    /\ activate[p].stage \in {"idle", "done"}
    /\ arrived < MaxReqs
    /\ arrived' = arrived + 1
    /\ LET id == GetPatronID([NoTokenFilter EXCEPT !.plaintext = t, !.hash = <<"sha256", t>>,
                                                   !.scope = ScopeActivation,
                                                   !.minExpiry = now])
       IN activate' = [activate EXCEPT ![p] =
              IF id = "ErrDocumentNotFound"
              THEN [NoActivation EXCEPT !.stage = "done", !.plaintext = t, !.status = 422]
              ELSE [NoActivation EXCEPT !.stage = "Patrons.Get", !.plaintext = t,
                                        !.patronID = id]]
    /\ UNCHANGED <<books, txs, patrons, now, pc, req, book, trans, tid, sess, log, wins,
                   last, named, summary, memBooks, memPatron, memResult, mw, tokens,
                   spent>>

\* activatePatronHandler, Patrons.Get of the patron ID: ErrDocumentNotFound is
\* answered 422.
ActivatePatronsGet(p) ==
    /\ activate[p].stage = "Patrons.Get"
    /\ IF activate[p].patronID \in DOMAIN patrons
       THEN activate' = [activate EXCEPT ![p].stage = "Patrons.Update",
                                         ![p].patron = patrons[activate[p].patronID]]
       ELSE activate' = [activate EXCEPT ![p].stage = "done", ![p].status = 422]
    /\ UNCHANGED <<books, txs, patrons, now, arrived, pc, req, book, trans, tid, sess,
                   log, wins, last, named, summary, memBooks, memPatron, memResult, mw,
                   tokens, spent>>

\* activatePatronHandler, patron.Activated = true and Patrons.Update with the
\* version read: ErrEditConflict is answered 409.
ActivatePatronsUpdate(p) ==
    /\ activate[p].stage = "Patrons.Update"
    /\ LET x == activate[p].patronID
           pt == [activate[p].patron EXCEPT !.activated = TRUE]
       IN IF x \in DOMAIN patrons /\ patrons[x].version = pt.version
          THEN /\ patrons' = Put(patrons, x, buildPatronUpdater(patrons[x], pt, now))
               /\ activate' = [activate EXCEPT ![p].stage = "Tokens.DeleteAllForPatron",
                                               ![p].patron = pt]
          ELSE /\ patrons' = patrons
               /\ activate' = [activate EXCEPT ![p].stage = "done", ![p].status = 409]
    /\ UNCHANGED <<books, txs, now, arrived, pc, req, book, trans, tid, sess, log, wins,
                   last, named, summary, memBooks, memPatron, memResult, mw, tokens,
                   spent>>

\* activatePatronHandler, Tokens.DeleteAllForPatron of the patron's activation
\* tokens and the answer: a DeletedCount of 0 is ErrDocumentNotFound, which the
\* handler returns as it is (500); otherwise the patron is answered (200).
ActivateDeleteAllForPatron(p) ==
    /\ activate[p].stage = "Tokens.DeleteAllForPatron"
    /\ LET f == [NoTokenFilter EXCEPT !.patronID = activate[p].patronID,
                                      !.scope = ScopeActivation]
       IN IF buildTokenFilter(f) = {}
          THEN /\ activate' = [activate EXCEPT ![p].stage = "done", ![p].status = 500]
               /\ UNCHANGED <<tokens, spent>>
          ELSE /\ tokens' = DeleteAllForPatron(f)
               /\ spent' = spent \cup {activate[p].plaintext}
               /\ activate' = [activate EXCEPT ![p].stage = "done", ![p].status = 200]
    /\ UNCHANGED <<books, txs, patrons, now, arrived, pc, req, book, trans, tid, sess,
                   log, wins, last, named, summary, memBooks, memPatron, memResult, mw>>

\* The patrons p1 and p2 created, or p2 deleted since, and some of the tokens
\* issued to them stored: of p1 two activation tokens in force, one that has
\* expired and an authentication token, of p2 one activation token.  No two
\* tokens have the same plaintext.  No activation has been asked for.
InitActivate ==
    /\ books = EmptyFn
    /\ txs = EmptyFn
    /\ \E ps \in {{"p1"}, {"p1", "p2"}} :
          patrons = [x \in ps |-> [NewPatron EXCEPT !.createdAt = 1, !.updatedAt = 1]]
    /\ now = 1
    /\ arrived = 0
    /\ pc = [p \in Procs |-> "idle"]
    /\ req = [p \in Procs |-> NoReq]
    /\ book = [p \in Procs |-> NoBook]
    /\ trans = [p \in Procs |-> NoTrans]
    /\ tid = [p \in Procs |-> 0]
    /\ sess = [p \in Procs |-> NoSess]
    /\ log = EmptyFn
    /\ wins = EmptyFn
    /\ named = FALSE
    /\ mw = NoCall
    /\ tokens \in SUBSET
          { generateToken("k1", "p1", MaxTime + 3 * Day, ScopeActivation),
            generateToken("k2", "p1", MaxTime + 3 * Day, ScopeActivation),
            generateToken("k3", "p1", 0, ScopeActivation),
            generateToken("k4", "p1", MaxTime + 3 * Day, "authentication"),
            generateToken("k5", "p2", MaxTime + 3 * Day, ScopeActivation) }
    /\ activate = [p \in Procs |-> NoActivation]
    /\ spent = {}
    /\ summary = NoSummary
    /\ memBooks = EmptyFn
    /\ memPatron = NoPatron
    /\ memResult = NoResult
    /\ last = Response(NoReq, "-")

\* The plaintext of a request is that of a token issued or one never issued.
NextActivate ==
    \/ \E p \in Procs, t \in {"k0", "k1", "k2", "k3", "k4", "k5"} :
          ActivateGetPatronID(p, t)
    \/ \E p \in Procs : ActivatePatronsGet(p)
    \/ \E p \in Procs : ActivatePatronsUpdate(p)
    \/ \E p \in Procs : ActivateDeleteAllForPatron(p)

SpecActivate == InitActivate /\ [][NextActivate]_vars

\* ---- the time ranges of a transaction filter (part_009) --------------------
\* A bound of a range that the filter leaves nil.
NoTime == -1

\* buildTransactionFilter, the ranges of returnedAt and borrowedAt: the query
\* document is a map, an assignment to a key replaces what the key held.  Both
\* ranges are assigned to query[borrowedAtTag].
buildTransactionRanges(f) ==
    LET returnedAtRange == [gte |-> f.minReturnedAt, lte |-> f.maxReturnedAt]
        borrowedAtRange == [gte |-> f.minBorrowedAt, lte |-> f.maxBorrowedAt]
        q1 == IF f.minReturnedAt # NoTime \/ f.maxReturnedAt # NoTime
              THEN Put(EmptyFn, "borrowed_at", returnedAtRange)
              ELSE EmptyFn
    IN IF f.minBorrowedAt # NoTime \/ f.maxBorrowedAt # NoTime
       THEN Put(q1, "borrowed_at", borrowedAtRange)
       ELSE q1

\* $gte and $lte of a range, each applied if it is set.
WithinRange(x, range) ==
    /\ range.gte # NoTime => x >= range.gte
    /\ range.lte # NoTime => x <= range.lte

\* TransactionModel.GetAll with a filter of time ranges, no paginator: Find
\* with the query document, each key's range applied to the field of that tag.
TransactionModelGetAll(f) ==
    /\ LET query == buildTransactionRanges(f)
           found == {i \in DOMAIN txs :
                       \A tag \in DOMAIN query :
                           WithinRange(IF tag = "borrowed_at" THEN txs[i].borrowedAt
                                       ELSE txs[i].returnedAt, query[tag])}
       IN last' = Called("Transaction.GetAll", "-", found)
    /\ UNCHANGED <<books, txs, patrons, now, arrived, pc, req, book, trans, tid, sess,
                   log, wins, named, summary, memBooks, memPatron, memResult, mw,
                   tokens, activate, spent>>

\* The filters of time ranges: each bound nil or a time.
RangeFilters ==
    [minReturnedAt : 1..MaxTime \cup {NoTime}, maxReturnedAt : 1..MaxTime \cup {NoTime},
     minBorrowedAt : 1..MaxTime \cup {NoTime}, maxBorrowedAt : 1..MaxTime \cup {NoTime}]

\* Up to two transactions stored, each borrowed at a time b and still
\* borrowed, or returned at a time r at or after b.
InitFilter ==
    /\ books = [b \in Books |-> [NoBook EXCEPT !.copies = MaxBookCopies]]
    /\ \E n \in 1..2 :
          \E g \in [1..n -> {br \in (1..MaxTime) \X (1..MaxTime \cup {NoTime}) :
                                br[2] = NoTime \/ br[2] >= br[1]}] :
              txs = [i \in 1..n |->
                       LET b == g[i][1]
                           r == g[i][2]
                           borrowed == TransactionInsert(
                                           NewTransaction("p1", "b1", b, MaxTime + Day), b)
                       IN IF r = NoTime THEN borrowed
                          ELSE buildTransactionUpdater(borrowed,
                                   [borrowed EXCEPT !.returnedAt = r,
                                                    !.status = TransactionStatusReturned],
                                   r)]
    /\ patrons = [x \in Patrons |-> NewPatron]
    /\ now = MaxTime
    /\ arrived = 0
    /\ pc = [p \in Procs |-> "idle"]
    /\ req = [p \in Procs |-> NoReq]
    /\ book = [p \in Procs |-> NoBook]
    /\ trans = [p \in Procs |-> NoTrans]
    /\ tid = [p \in Procs |-> 0]
    /\ sess = [p \in Procs |-> NoSess]
    /\ log = EmptyFn
    /\ wins = EmptyFn
    /\ named = FALSE
    /\ mw = NoCall
    /\ tokens = {}
    /\ activate = [p \in Procs |-> NoActivation]
    /\ spent = {}
    /\ summary = NoSummary
    /\ memBooks = EmptyFn
    /\ memPatron = NoPatron
    /\ memResult = NoResult
    /\ last = Response(NoReq, "-")

NextFilter == \E f \in RangeFilters : TransactionModelGetAll(f)

SpecFilter == InitFilter /\ [][NextFilter]_vars

\* ---- the in-memory library (internal/data) -------------------------------
Titles == {"t1", "t2"}

UnknownTitle == "t0"

\* Book.BorrowDuration of the books of the list.
BorrowDuration == 2 * Day

\* The discount percentages of the two categories (teacher, student).
DiscountPercentages == {20, 25}

\* The variables of the service, which the in-memory library leaves alone.
serviceVars == <<books, txs, patrons, now, arrived, pc, req, book, trans, tid, sess,
                 log, wins, last, named, summary, mw, tokens, activate, spent>>

\* getBookByTitle: the address of the loop variable, a copy of the first book
\* of the list with the title, or nil.
Nil == [nil |-> TRUE]

getBookByTitle(title, list) ==
    IF title \in DOMAIN list THEN list[title] ELSE Nil

\* markBookAsBorrowed, on the book the pointer refers to.
markBookAsBorrowed(b) == [b EXCEPT !.Borrowed = TRUE]

\* daysBetween: 0 if end is before start, else the days between them rounded up.
daysBetween(start, end) ==
    IF end - start < 0 THEN 0 ELSE (end - start + Day - 1) \div Day

\* Discount, in hundredths: DiscountPercentage / 100.
Discount(pt) == pt.DiscountPercentage

\* The sum of overdueFine * daysBetween(BorrowedAt + BorrowDuration, now) over
\* the borrowed books.
TotalFine(pt, rate, at) ==
    SumOver([t \in DOMAIN pt.BorrowedBooks |->
                rate * daysBetween(pt.BorrowedBooks[t].BorrowedAt
                                      + pt.BorrowedBooks[t].BorrowDuration, at)],
            DOMAIN pt.BorrowedBooks)

\* Patron.CalcFine: totalFine * p.Category.Discount(), in hundredths.
CalcFine ==
    /\ memResult.err # "panic"
    /\ memResult' = [op |-> "CalcFine", title |-> "-", err |-> "-",
                     fine |-> TotalFine(memPatron, overdueFine, now) * Discount(memPatron)]
    /\ UNCHANGED <<memBooks, memPatron>>
    /\ UNCHANGED serviceVars

\* Patron.BorrowBook: getBookByTitle, markBookAsBorrowed on the book returned
\* (a nil pointer for an unlisted title: the write panics), then the record of
\* the loan in p.BorrowedBooks.  It returns nothing.  The book marked is the
\* copy getBookByTitle made, so the list keeps its flags.
BorrowBook(title) ==
    /\ memResult.err # "panic"
    /\ LET b == getBookByTitle(title, memBooks)
       IN IF b = Nil
          THEN /\ memResult' = [op |-> "BorrowBook", title |-> title, err |-> "panic", fine |-> 0]
               /\ UNCHANGED <<memBooks, memPatron>>
          ELSE LET marked == markBookAsBorrowed(b)
               IN /\ memPatron' = [memPatron EXCEPT !.BorrowedBooks =
                        Put(@, title, [BorrowDuration |-> marked.BorrowDuration,
                                       BorrowedAt |-> now])]
                  /\ memResult' = [op |-> "BorrowBook", title |-> title, err |-> "-", fine |-> 0]
                  /\ UNCHANGED memBooks
    /\ UNCHANGED serviceVars

\* Patron.ReturnBook: getBookByTitle, markBookAsNotBorrowed on the copy (nil:
\* panic), delete(p.BorrowedBooks, title).
ReturnBook(title) ==
    /\ memResult.err # "panic"
    /\ IF getBookByTitle(title, memBooks) = Nil
       THEN /\ memResult' = [op |-> "ReturnBook", title |-> title, err |-> "panic", fine |-> 0]
            /\ UNCHANGED <<memBooks, memPatron>>
       ELSE /\ memPatron' = [memPatron EXCEPT !.BorrowedBooks =
                                IF title \in DOMAIN @ THEN Remove(@, title) ELSE @]
            /\ memResult' = [op |-> "ReturnBook", title |-> title, err |-> "-", fine |-> 0]
            /\ UNCHANGED memBooks
    /\ UNCHANGED serviceVars

\* A list of books, some of them marked borrowed, and a patron of either
\* category who holds those, each due at one of FineDueDates.
InitMemory ==
    /\ books = [b \in Books |-> [NoBook EXCEPT !.copies = MaxBookCopies]]
    /\ txs = EmptyFn
    /\ patrons = [x \in Patrons |-> NewPatron]
    /\ now = FineTime
    /\ arrived = 0
    /\ pc = [p \in Procs |-> "idle"]
    /\ req = [p \in Procs |-> NoReq]
    /\ book = [p \in Procs |-> NoBook]
    /\ trans = [p \in Procs |-> NoTrans]
    /\ tid = [p \in Procs |-> 0]
    /\ sess = [p \in Procs |-> NoSess]
    /\ log = EmptyFn
    /\ wins = EmptyFn
    /\ named = FALSE
    /\ spent = {}
    /\ activate = [p \in Procs |-> NoActivation]
    /\ tokens = {}
    /\ mw = NoCall
    /\ summary = NoSummary
    /\ last = Response(NoReq, "-")
    /\ \E held \in SUBSET Titles :
          /\ memBooks = [t \in Titles |-> [Borrowed |-> t \in held,
                                           BorrowDuration |-> BorrowDuration]]
          /\ \E d \in DiscountPercentages, due \in [held -> FineDueDates] :
                memPatron = [BorrowedBooks |->
                                [t \in held |-> [BorrowDuration |-> BorrowDuration,
                                                 BorrowedAt |-> due[t] - BorrowDuration]],
                             DiscountPercentage |-> d]
    /\ memResult = NoResult

NextMemory ==
    \/ \E title \in Titles \cup {UnknownTitle} : BorrowBook(title)
    \/ \E title \in Titles \cup {UnknownTitle} : ReturnBook(title)
    \/ CalcFine

SpecMemory == InitMemory /\ [][NextMemory]_vars

\* ---- properties ----------------------------------------------------------
Borrowed(patron, b) ==
    {i \in DOMAIN txs : /\ txs[i].patron = patron
                        /\ txs[i].book = b
                        /\ txs[i].status = TransactionStatusBorrowed}

\* C1: for every book, 0 <= borrowedCopies <= copies in every reachable state.
\* Violated: Return subtracts the caller's copies unchecked, and a catalog
\* update may set copies below borrowedCopies.
C1_CopiesWithinBounds ==
    \A b \in DOMAIN books :
        0 <= books[b].borrowedCopies /\ books[b].borrowedCopies <= books[b].copies

\* C2: for every (patron, book) pair at most one transaction with status
\* borrowed is stored.  Violated: the borrow workflow does not look for an open
\* transaction of the pair.
C2_OneBorrowedPerPair ==
    \A patron \in Patrons, b \in Books : Cardinality(Borrowed(patron, b)) <= 1

AllFree == \A p \in Procs : Free(p)

TransactionsOf(b) == {i \in DOMAIN txs : txs[i].book = b}

\* Exactly one of the borrows of b has succeeded, and never more than one.
OneBorrowWon(b) ==
    /\ Cardinality(TransactionsOf(b)) <= 1
    /\ books[b].borrowedCopies <= 1
    /\ (arrived >= 2 /\ AllFree) =>
          Cardinality(TransactionsOf(b)) = 1 /\ books[b].borrowedCopies = 1

\* C3: of the concurrent one-copy borrows of a book with one copy
\* left exactly one succeeds, and every other fails with Conflict or
\* EditConflict.  Violated: the loser of the race on the book document gets
\* the store's write-conflict error from Books.Update.
C3_RaceConflictOrEditConflict ==
    /\ \A b \in DOMAIN books : OneBorrowWon(b)
    /\ last.res \in {"-", "OK", "Conflict", "EditConflict"}

\* Slot p takes a step of its handler; the handler returns rs in this step.
Steps(p) == pc[p] # "idle" /\ pc'[p] # pc[p]

Returns(p, rs) == pc[p] # "idle" /\ pc'[p] = "idle" /\ last'.res = rs

\* C4: a borrow is all or nothing.  The step that commits it makes the
\* inserted transaction and the incremented book visible together; every other
\* step of it (so every step that ends it in a failure) leaves the stored
\* transactions and books as they were.
C4_BorrowAllOrNothing ==
    [][\A p \in Procs :
          (req[p].kind = "borrow" /\ Steps(p)) =>
              IF Returns(p, "OK")
              THEN /\ tid[p] \notin DOMAIN txs /\ tid[p] \in DOMAIN txs'
                   /\ books'[req[p].book].borrowedCopies =
                         books[req[p].book].borrowedCopies + req[p].copies
              ELSE txs' = txs /\ books' = books]_vars

\* A borrow failed on its book update, after its insert: nothing is stored.
C4_Witness ==
    /\ AllFree
    /\ last.kind = "borrow" /\ last.res = "WriteConflict"
    /\ txs = EmptyFn /\ log = EmptyFn
    /\ \A b \in DOMAIN books : books[b].borrowedCopies = 0

\* C5: a return is atomic.  The step that commits it makes the returned
\* transaction and the decremented book visible together; every other step of
\* it (so every step that ends it with EditConflict, a write conflict, a
\* failed commit or a cancellation) leaves the stored transactions and books
\* as they were.
C5_ReturnAtomic ==
    [][\A p \in Procs :
          (req[p].kind = "return" /\ Steps(p)) =>
              IF Returns(p, "OK")
              THEN /\ txs'[tid[p]].status = TransactionStatusReturned
                   /\ books'[req[p].book].borrowedCopies =
                         books[req[p].book].borrowedCopies - req[p].copies
              ELSE txs' = txs /\ books' = books]_vars

\* Three requests: a borrow, a catalog update and a return that lost to the
\* update on the book, after its transaction update: the transaction is still
\* borrowed and was not stamped.
C5_Witness ==
    /\ AllFree /\ arrived = 3
    /\ last.kind = "return" /\ last.res = "WriteConflict"
    /\ Cardinality(DOMAIN log) = 1
    /\ \A b \in DOMAIN books : books[b].version = 2
    /\ \A id \in DOMAIN log : /\ log[id].returns = 0
                              /\ id \in DOMAIN txs
                              /\ txs[id].status = TransactionStatusBorrowed
                              /\ txs[id].returnedAt = 0
                              /\ books[log[id].book].borrowedCopies = log[id].copies

\* The request that arrives in this step, on slot p, is of this kind, by this
\* patron, for this book.
Arrival(p, kind, patron, b) ==
    /\ Arrives(p)
    /\ arrived' = arrived + 1
    /\ IF pc'[p] = "idle"
       THEN last'.kind = kind /\ last'.patron = patron /\ last'.book = b
       ELSE req'[p].kind = kind /\ req'[p].patron = patron /\ req'[p].book = b

\* C6: a borrow of more copies than the book has left fails with Conflict,
\* inserts no transaction and leaves the book as it was.
C6_UnavailableConflict ==
    [][arrived' # arrived =>
          \A p \in Procs, patron \in Patrons, b \in Books :
              Arrival(p, "borrow", patron, b) =>
                  \A n \in 1..MaxBookCopies :
                      (/\ BorrowGet(p, patron, b, n, Min(DueDates))
                       /\ b \in DOMAIN books
                       /\ books[b].borrowedCopies + n > books[b].copies) =>
                          /\ pc'[p] = "idle"
                          /\ last'.res = "Conflict"
                          /\ txs' = txs /\ books' = books /\ sess' = sess]_vars

\* The first request asked for more copies than the book has, which has some.
C6_Witness ==
    /\ arrived = 1 /\ AllFree
    /\ last.kind = "borrow" /\ last.res = "Conflict"
    /\ txs = EmptyFn
    /\ \A b \in DOMAIN books : books[b].borrowedCopies < books[b].copies

\* The Update that slot p executes in this step (not a cancelled one) carries
\* a version that is not the stored one.
StaleUpdate(p) ==
    /\ Steps(p)
    /\ ~Returns(p, "Error")
    /\ \/ /\ pc[p] \in {"b_update", "r_updbook", "u_update"}
          /\ books[req[p].book].version # book[p].version
       \/ /\ pc[p] = "r_updtx"
          /\ tid[p] \notin DOMAIN txs \/ txs[tid[p]].version # trans[p].version

\* C7: an Update with a stale version returns EditConflict and
\* leaves the stored record unchanged.  Violated: inside a store transaction
\* the stale Update fails with the store's write-conflict error.
C7_StaleIsEditConflict ==
    [][\A p \in Procs :
          StaleUpdate(p) => Returns(p, "EditConflict") /\ books' = books /\ txs' = txs]_vars

\* Slot p executes the Update of the book it read, on a version on which an
\* Update of another writer has succeeded already.
LateUpdate(p) ==
    /\ Steps(p)
    /\ ~Returns(p, "Error")
    /\ pc[p] \in {"b_update", "r_updbook", "u_update"}
    /\ Won(<<req[p].book, book[p].version>>) >= 1

\* C8: of the writers that read the same version at most one
\* succeeds, and the other returns EditConflict.  Violated as C7 is: the
\* loser inside a store transaction gets the store's write-conflict error.
C8_LoserGetsEditConflict ==
    [][/\ \A p \in Procs : LateUpdate(p) => Returns(p, "EditConflict")
       /\ \A k \in DOMAIN wins' : wins'[k] <= 1]_vars

\* Every committed borrow of the pair has had a return committed on it.
AllReturned(patron, b) ==
    \A id \in DOMAIN log :
        (log[id].patron = patron /\ log[id].book = b) => log[id].returns >= 1

\* C9: a return of a pair whose borrows have all been returned already (so
\* the second return after a single borrow) fails with NotFound and changes
\* nothing; no transaction is ever returned twice.
C9_SecondReturnNotFound ==
    [][/\ arrived' # arrived =>
            \A p \in Procs, patron \in Patrons, b \in Books :
                (Arrival(p, "return", patron, b) /\ AllReturned(patron, b)) =>
                    /\ pc'[p] = "idle"
                    /\ last'.res = "NotFound"
                    /\ txs' = txs /\ books' = books /\ sess' = sess
       /\ \A id \in DOMAIN log' : log'[id].returns <= 1]_vars

\* The last response is the NotFound of a return of a pair that has borrowed
\* and returned.
C9_Witness ==
    /\ AllFree
    /\ last.kind = "return" /\ last.res = "NotFound"
    /\ \E id \in DOMAIN log : /\ log[id].patron = last.patron
                              /\ log[id].book = last.book
                              /\ log[id].returns = 1
    /\ AllReturned(last.patron, last.book)

\* The borrow that created transaction id took one copy, one return of one
\* copy was committed on it, and nothing else wrote the book since the borrow.
BorrowThenReturn(id) ==
    /\ log[id].copies = 1
    /\ log[id].returns = 1
    /\ log[id].retCopies = 1
    /\ books[log[id].book].version = log[id].bver + 1

\* C10: Borrow followed by Return of one copy restores the book's
\* borrowedCopies to its value before the borrow, and leaves the transaction
\* returned with a non-zero returnedAt.
C10_BorrowReturnRestores ==
    \A id \in DOMAIN log :
        BorrowThenReturn(id) =>
            /\ books[log[id].book].borrowedCopies = log[id].pre
            /\ id \in DOMAIN txs =>
                  /\ txs[id].status = TransactionStatusReturned
                  /\ txs[id].returnedAt # 0

C10_Witness ==
    \E id \in DOMAIN log : BorrowThenReturn(id) /\ id \in DOMAIN txs

\* C11: the step that ends a borrow with success stores exactly one new
\* transaction, of the patron and the book of the request, with status
\* borrowed, the due date of the request and a borrowedAt taken from the clock
\* while the request ran; every other transaction stays as it was, and the
\* book's borrowedCopies grows by exactly the copies of the request.
C11_BorrowEffects ==
    [][\A p \in Procs :
          (req[p].kind = "borrow" /\ Returns(p, "OK")) =>
              /\ tid[p] \notin DOMAIN txs
              /\ DOMAIN txs' = DOMAIN txs \cup {tid[p]}
              /\ \A id \in DOMAIN txs : txs'[id] = txs[id]
              /\ txs'[tid[p]].patron = req[p].patron
              /\ txs'[tid[p]].book = req[p].book
              /\ txs'[tid[p]].status = TransactionStatusBorrowed
              /\ txs'[tid[p]].dueDate = req[p].due
              /\ req[p].at <= txs'[tid[p]].borrowedAt
              /\ txs'[tid[p]].borrowedAt <= now
              /\ txs'[tid[p]].returnedAt = 0
              /\ books'[req[p].book] =
                    [books[req[p].book] EXCEPT
                        !.borrowedCopies = @ + req[p].copies,
                        !.updatedAt = books'[req[p].book].updatedAt,
                        !.version = @ + 1]]_vars

\* A borrow of all copies, with the later due date, that was built after the
\* clock had moved on, has succeeded.
C11_Witness ==
    /\ last.kind = "borrow" /\ last.res = "OK"
    /\ \E id \in DOMAIN txs :
          /\ txs[id].dueDate = Max(DueDates)
          /\ txs[id].borrowedAt > 1
          /\ txs[id].status = TransactionStatusBorrowed
          /\ books[txs[id].book].borrowedCopies = books[txs[id].book].copies
          /\ books[txs[id].book].copies >= 2

\* The place of a label in borrowBookTransactionHandler; the availability
\* check is made on arrival, before the first label.
BorrowRank(l) ==
    CASE l = "b_insert" -> 1
      [] l = "b_update" -> 2
      [] l = "commit" -> 3
      [] OTHER -> 4

\* C12: a borrow goes through its steps once.  Every step of it leads to a
\* later step or ends it, so the availability check and the book update are
\* made at most once; a book update that fails ends the borrow with a
\* failure, stores nothing and is not issued again as a new request.
C12_BorrowNotRetried ==
    [][\A p \in Procs :
          (req[p].kind = "borrow" /\ Steps(p)) =>
              /\ BorrowRank(pc'[p]) > BorrowRank(pc[p])
              /\ arrived' = arrived
              /\ (pc[p] = "b_update" /\ pc'[p] # "commit") =>
                    /\ pc'[p] = "idle"
                    /\ last'.kind = "borrow" /\ last'.res # "OK"
                    /\ sess'[p] = NoSess
                    /\ books' = books /\ txs' = txs]_vars

\* Two requests; the second to finish is a borrow whose book update lost to
\* the write of the other, and no further request has arrived.
C12_Witness ==
    /\ AllFree /\ arrived = 2
    /\ last.kind = "borrow" /\ last.res = "WriteConflict"
    /\ \A b \in DOMAIN books : books[b].version = 1

\* C13: a borrow or a return that loses on a concurrent write (EditConflict,
\* or the write conflict the store raises in its place) is answered with the
\* client-visible conflict status, 409, not with the status of an internal
\* error.  Violated: the workflows return the error of Update unmapped, and
\* the caller gets 500.
C13_ConflictIsClientVisible ==
    (last.kind \in {"borrow", "return"} /\ last.res \in {"EditConflict", "WriteConflict"}) =>
        StatusCode(last.kind, last.res) = 409

\* The number of Updates of book b that have succeeded and taken effect.
RECURSIVE SumWon(_)
SumWon(K) ==
    IF K = {} THEN 0
    ELSE LET k == CHOOSE x \in K : TRUE IN Won(k) + SumWon(K \ {k})

UpdatesOf(b) == SumWon({k \in DOMAIN wins : k[1] = b})

\* C14: a record's version counts its successful Updates.  A book, stored
\* with version 0, has as its version the number of Updates that succeeded on
\* it; a transaction, inserted with version 0, the number of returns
\* committed on it, each of which is one Update.
C14_VersionCountsUpdates ==
    /\ \A b \in DOMAIN books : books[b].version = UpdatesOf(b)
    /\ \A id \in DOMAIN txs : id \in DOMAIN log /\ txs[id].version = log[id].returns

\* A book that three Updates have succeeded on, one of them the Update of a
\* return, which was the one Update of its transaction.
C14_Witness ==
    /\ \E b \in DOMAIN books : books[b].version = 3 /\ UpdatesOf(b) = 3
    /\ \E id \in DOMAIN txs : txs[id].version = 1

\* C15: a borrow or a return that names a book or a patron that is not in
\* the store fails with NotFound in its first step: no transaction is
\* inserted or updated, no book changes, no store transaction stays open.
C15_UnknownIdNotFound ==
    [][arrived' # arrived =>
          \A p \in Procs, patron \in {"p1", UnknownPatron}, b \in Books \cup {UnknownBook} :
              (/\ Arrival(p, "borrow", patron, b) \/ Arrival(p, "return", patron, b)
               /\ b \notin DOMAIN books \/ patron \notin DOMAIN patrons) =>
                  /\ pc'[p] = "idle"
                  /\ last'.res = "NotFound"
                  /\ StatusCode(last'.kind, last'.res) = 404
                  /\ txs' = txs /\ books' = books /\ sess' = sess]_vars

\* The borrow of an unknown patron, of a book that has copies left, was
\* answered with NotFound, next to a transaction that is stored.
C15_Witness ==
    /\ last.kind = "borrow" /\ last.res = "NotFound"
    /\ last.patron = UnknownPatron /\ last.book \in DOMAIN books
    /\ books[last.book].borrowedCopies < books[last.book].copies
    /\ txs # EmptyFn

\* Slot p commits, in this step, a request of one of these kinds.
Commits(p, kinds) == req[p].kind \in kinds /\ pc[p] = "commit" /\ Returns(p, "OK")

\* C16: a book's borrowedCopies changes only in the step that commits a
\* borrow or a return of that book, and the status of a stored transaction
\* only in the step that commits a return of it: the catalog update, the
\* administrative update and delete of transactions and every failed or
\* unfinished request leave both as they are.
C16_WorkflowSoleWriter ==
    [][/\ \A b \in DOMAIN books :
            books'[b].borrowedCopies # books[b].borrowedCopies =>
                \E p \in Procs : Commits(p, {"borrow", "return"}) /\ req[p].book = b
       /\ \A id \in DOMAIN txs \cap DOMAIN txs' :
            txs'[id].status # txs[id].status =>
                \E p \in Procs : Commits(p, {"return"}) /\ tid[p] = id]_vars

\* An administrative update was accepted after a borrow and a catalog update
\* of the book, of which the copy is still borrowed.
C16_Witness ==
    /\ last.kind = "updatetx" /\ last.res = "OK"
    /\ \E id \in DOMAIN txs :
          /\ txs[id].status = TransactionStatusBorrowed
          /\ books[txs[id].book].borrowedCopies = 1
          /\ books[txs[id].book].version = 2

\* C17: the status of a transaction follows (none) -> borrowed -> returned.
\* A transaction appears in the store only in the commit of a borrow, with
\* status borrowed and an id no transaction has had; a stored status changes
\* only from borrowed to returned, in the commit of a return of that
\* transaction; and a return commits only on a transaction that is borrowed.
C17_StatusLifecycle ==
    [][/\ \A id \in DOMAIN txs' \ DOMAIN txs :
            /\ txs'[id].status = TransactionStatusBorrowed
            /\ id \notin DOMAIN log
            /\ \E p \in Procs : Commits(p, {"borrow"}) /\ tid[p] = id
       /\ \A id \in DOMAIN txs \cap DOMAIN txs' :
            txs'[id].status # txs[id].status =>
                /\ txs[id].status = TransactionStatusBorrowed
                /\ txs'[id].status = TransactionStatusReturned
                /\ \E p \in Procs : Commits(p, {"return"}) /\ tid[p] = id
       /\ \A p \in Procs :
            Commits(p, {"return"}) =>
                /\ tid[p] \in DOMAIN txs
                /\ txs[tid[p]].status = TransactionStatusBorrowed
                /\ txs'[tid[p]].status = TransactionStatusReturned]_vars

\* A borrow, its return, and a second return that found nothing to return:
\* the transaction is returned and stays so.
C17_Witness ==
    /\ arrived = 3 /\ AllFree
    /\ last.kind = "return" /\ last.res = "NotFound" /\ last.patron \in DOMAIN patrons
    /\ \E id \in DOMAIN txs : txs[id].status = TransactionStatusReturned /\ txs[id].version = 1

\* C19: an administrative update that names a due date for a transaction
\* that is returned is refused (422), and the stored transaction stays as it
\* is.
C19_ReturnedDueDateRefused ==
    [][arrived' # arrived =>
          \A p \in Procs, id \in 1..MaxReqs, due \in DueDates :
              (/\ id \in DOMAIN txs
               /\ txs[id].status = TransactionStatusReturned
               /\ UpdateTransaction(p, id, due)) =>
                  /\ last'.kind = "updatetx"
                  /\ last'.res = "Unprocessable"
                  /\ StatusCode(last'.kind, last'.res) = 422
                  /\ txs' = txs]_vars

\* A borrow, its return, and an administrative update of the returned
\* transaction that was refused.
C19_Witness ==
    /\ arrived = 3 /\ AllFree
    /\ last.kind = "updatetx" /\ last.res = "Unprocessable"
    /\ \E id \in DOMAIN txs : txs[id].status = TransactionStatusReturned

\* C20: after an administrative update of a borrowed transaction with a new
\* due date has succeeded, the stored transaction has that due date.
\* Violated: updateTransactionHandler sets the due date on the transaction it
\* read and returns it, and never calls Transactions.Update.
C20_DueDateStored ==
    [][arrived' # arrived =>
          \A p \in Procs, id \in 1..MaxReqs, due \in DueDates :
              (/\ id \in DOMAIN txs
               /\ txs[id].status = TransactionStatusBorrowed
               /\ UpdateTransaction(p, id, due)) =>
                  /\ last'.kind = "updatetx" /\ last'.res = "OK"
                  /\ id \in DOMAIN txs' /\ txs'[id].dueDate = due]_vars

\* C18: an Update never adds, removes or renames a document, and of a
\* document it matched it changes the whitelisted fields, updatedAt and
\* version only: createdAt of a book, a transaction and a patron, and patron,
\* book and borrowedAt of a transaction, are those stored before, whatever
\* the entity passed to Update holds in them.
C18_UpdateWhitelist ==
    [][/\ DOMAIN books' = DOMAIN books
       /\ DOMAIN txs' = DOMAIN txs
       /\ DOMAIN patrons' = DOMAIN patrons
       /\ \A b \in DOMAIN books :
            books'[b] = [books[b] EXCEPT !.copies = books'[b].copies,
                                         !.borrowedCopies = books'[b].borrowedCopies,
                                         !.updatedAt = books'[b].updatedAt,
                                         !.version = books'[b].version]
       /\ \A id \in DOMAIN txs :
            txs'[id] = [txs[id] EXCEPT !.dueDate = txs'[id].dueDate,
                                       !.returnedAt = txs'[id].returnedAt,
                                       !.status = txs'[id].status,
                                       !.updatedAt = txs'[id].updatedAt,
                                       !.version = txs'[id].version]
       /\ \A x \in DOMAIN patrons :
            patrons'[x] = [patrons[x] EXCEPT !.name = patrons'[x].name,
                                             !.activated = patrons'[x].activated,
                                             !.updatedAt = patrons'[x].updatedAt,
                                             !.version = patrons'[x].version]]_vars

\* Every document has been updated twice, by entities of the callers'
\* making, and has the createdAt it was stored with.
C18_Witness ==
    /\ \A b \in DOMAIN books : books[b].version = 2 /\ books[b].createdAt = 1
    /\ \A id \in DOMAIN txs : /\ txs[id].version = 2 /\ txs[id].createdAt = 1
                               /\ txs[id].status = TransactionStatusReturned
    /\ \A x \in DOMAIN patrons : /\ patrons[x].version = 2 /\ patrons[x].name = "n1"
                                  /\ patrons[x].updatedAt = MaxTime

\* C21: a borrow whose due date is not strictly between one day and fourteen
\* days from the clock is refused as an input error (422) when it arrives:
\* no store transaction is begun, no book and no transaction changes.
C21_InvalidDueDateRefused ==
    [][arrived' # arrived =>
          \A p \in Procs, b \in Books, n \in 1..MaxBookCopies,
             due \in DueDates \cup {now + Day, now + 14 * Day} :
              (/\ ~(now + Day < due /\ due < now + 14 * Day)
               /\ BorrowGet(p, "p1", b, n, due)) =>
                  /\ pc'[p] = "idle"
                  /\ last'.kind = "borrow" /\ last'.res = "Unprocessable"
                  /\ StatusCode(last'.kind, last'.res) = 422
                  /\ txs' = txs /\ books' = books /\ sess' = sess]_vars

\* After a borrow that succeeded, a borrow was refused for its due date.
C21_Witness ==
    /\ last.kind = "borrow" /\ last.res = "Unprocessable"
    /\ AllFree
    /\ txs # EmptyFn
    /\ \E b \in DOMAIN books : books[b].borrowedCopies < books[b].copies

\* C22: the fine of an overdue transaction is the number of days overdue,
\* rounded up to whole days, times the rate a day: a transaction overdue by
\* less than a day is fined one day, one overdue by ten days is fined ten.
C22_FineRoundsUp ==
    \A id \in DOMAIN summary.fines :
        txs[id].dueDate < FineTime =>
            summary.fines[id] =
                ((FineTime - txs[id].dueDate + Day - 1) \div Day) * overdueFine

\* C23: a transaction due at the time of the summary or after it has fine 0.
C23_NotOverdueNoFine ==
    \A id \in DOMAIN summary.fines :
        txs[id].dueDate >= FineTime => summary.fines[id] = 0

C23_Witness ==
    /\ summary.patron = "p1"
    /\ \E id, jd, kd \in DOMAIN summary.fines :
          /\ txs[id].dueDate = FineTime
          /\ txs[jd].dueDate > FineTime
          /\ txs[kd].dueDate < FineTime /\ summary.fines[kd] > 0

\* C25: the summary of a patron lists every transaction of the patron, and
\* its totalFine is the sum of the fines listed.
C25_SummaryCoversAll ==
    summary.patron \in Patrons =>
        /\ DOMAIN summary.fines = {id \in DOMAIN txs : txs[id].patron = summary.patron}
        /\ summary.totalFine = SumOver(summary.fines, DOMAIN summary.fines)

C25_Witness ==
    /\ summary.patron = "p2"
    /\ Cardinality(DOMAIN summary.fines) = MaxReqs - 1
    /\ \E id \in DOMAIN txs : txs[id].patron = "p1"
    /\ \A id \in DOMAIN summary.fines : summary.fines[id] > 0

\* C24: the fine of a patron of the in-memory library is the sum of the fines
\* of the borrowed books less the discount of the category, applied once:
\* total * (1 - discount).
C24_DiscountOnTotal ==
    [][CalcFine =>
          memResult'.fine =
              TotalFine(memPatron, overdueFine, now)
                  * (100 - memPatron.DiscountPercentage)]_vars

\* C30: in the in-memory library a borrow of a book marked borrowed fails with
\* "book already borrowed", a borrow of a title not in the list fails with
\* "nonexistent book", and neither changes the list or the patron's
\* BorrowedBooks.
C30_BorrowErrors ==
    [][\A title \in Titles \cup {UnknownTitle} :
          BorrowBook(title) =>
              /\ title \notin DOMAIN memBooks =>
                    /\ memResult'.err = "nonexistent book"
                    /\ memBooks' = memBooks /\ memPatron' = memPatron
              /\ (title \in DOMAIN memBooks /\ memBooks[title].Borrowed) =>
                    /\ memResult'.err = "book already borrowed"
                    /\ memBooks' = memBooks /\ memPatron' = memPatron]_vars

\* C27: an Update of the data layer that names the ID of no stored record
\* returns EditConflict and stores nothing.
C27_UpdateOfNoRecord ==
    [][/\ \A b \in (Books \cup {UnknownBook}) \ DOMAIN books :
              (/\ last'.kind = "Book.Update" /\ last'.book = b
               /\ \E bk \in BookEntities : BookModelUpdate(b, bk)) =>
                  last'.res = "EditConflict" /\ books' = books
       /\ \A id \in (1..MaxReqs) \ DOMAIN txs :
              (/\ last'.kind = "Transaction.Update" /\ last'.book = ToString(id)
               /\ \E t \in TransactionEntities : TransactionModelUpdate(id, t)) =>
                  last'.res = "EditConflict" /\ txs' = txs
       /\ \A x \in Patrons \ DOMAIN patrons :
              (/\ last'.kind = "Patron.Update" /\ last'.book = x
               /\ \E pt \in PatronEntities : PatronModelUpdate(x, pt)) =>
                  last'.res = "EditConflict" /\ patrons' = patrons]_vars

\* An Update of an unknown book was refused after Updates of the stored
\* documents had succeeded.
C27_Witness ==
    /\ last = Called("Book.Update", UnknownBook, "EditConflict")
    /\ UnknownBook \notin DOMAIN books
    /\ \E b \in DOMAIN books : books[b].version > 0
    /\ \E id \in DOMAIN txs : txs[id].version > 1

\* C28: a delete of a stored record removes it, and a Get of it then returns
\* NotFound; a delete that matches no record returns NotFound and changes
\* nothing.
C28_DeleteRemoves ==
    [][arrived' # arrived =>
        /\ \A p \in Procs, b \in Books \cup {UnknownBook} :
              DeleteBook(p, b) =>
                  IF b \in DOMAIN books
                  THEN /\ last'.res = "OK"
                       /\ books' = Remove(books, b)
                       /\ buildBookFilter(books', b, AnyVersion) = {}
                       /\ txs' = txs
                  ELSE /\ last'.res = "NotFound"
                       /\ books' = books /\ txs' = txs
        /\ \A p \in Procs, id \in 1..MaxReqs :
              DeleteTransaction(p, id) =>
                  IF id \in DOMAIN txs
                  THEN /\ last'.res = "OK"
                       /\ txs' = Remove(txs, id)
                       /\ books' = books
                  ELSE /\ last'.res = "NotFound"
                       /\ books' = books /\ txs' = txs
        /\ \A p \in Procs, b \in Books \cup {UnknownBook} :
              GetBook(p, b) =>
                  (last'.res = "NotFound" <=> b \notin DOMAIN books)]_vars

\* A Get of a book that was stored and has been deleted is answered NotFound.
C28_Witness ==
    /\ last.kind = "getbook" /\ last.res = "NotFound"
    /\ last.book \in Books /\ last.book \notin DOMAIN books

\* C29: a book is never deleted while a Borrowed transaction refers to it:
\* the book of every Borrowed transaction is in the collection.
C29_BorrowedBookExists ==
    \A id \in DOMAIN txs :
        txs[id].status = TransactionStatusBorrowed => txs[id].book \in DOMAIN books

\* C26: an Insert of an entity whose ID is stored fails with DuplicateID, one
\* whose unique field (ISBN of a book, e-mail of a patron) is stored fails
\* with the error of the duplicate unique field, and neither stores anything.
C26_DuplicateErrors ==
    [][/\ \A id \in BookIDs, isbn \in ISBNs :
              BookModelInsert(id, isbn) =>
                  /\ id \in DOMAIN books =>
                        last'.res = "DuplicateID" /\ books' = books
                  /\ (id \notin DOMAIN books
                         /\ \E b \in DOMAIN books : books[b].isbn = isbn) =>
                        last'.res = "DuplicateISBN" /\ books' = books
       /\ \A id \in PatronIDs, email \in Emails :
              PatronModelInsert(id, email) =>
                  /\ id \in DOMAIN patrons =>
                        last'.res = "DuplicateID" /\ patrons' = patrons
                  /\ (id \notin DOMAIN patrons
                         /\ \E x \in DOMAIN patrons : patrons[x].email = email) =>
                        last'.res = "DuplicateEmail" /\ patrons' = patrons]_vars

\* C31: in the in-memory library a ReturnBook of a title that is not in the
\* list, or that the patron has not borrowed, fails with an error and leaves
\* BorrowedBooks alone; a successful ReturnBook removes the title from
\* BorrowedBooks.
C31_ReturnErrors ==
    [][\A title \in Titles \cup {UnknownTitle} :
          ReturnBook(title) =>
              IF title \in DOMAIN memBooks /\ title \in DOMAIN memPatron.BorrowedBooks
              THEN /\ memResult'.err = "-"
                   /\ title \notin DOMAIN memPatron'.BorrowedBooks
              ELSE /\ memResult'.err \in {"nonexistent book", "book not owned"}
                   /\ memPatron' = memPatron]_vars

\* The copies taken out by the transactions of book b that are Borrowed: for
\* each of them the copies of the borrow that stored it.
CopiesOut(b) ==
    LET open == {id \in DOMAIN txs : /\ txs[id].book = b
                                     /\ txs[id].status = TransactionStatusBorrowed}
    IN SumOver([id \in open |-> log[id].copies], open)

\* C32: the borrowedCopies of every book is the number of copies taken out by
\* the transactions of the book that are Borrowed.
C32_CounterMatchesLoans ==
    \A b \in DOMAIN books : books[b].borrowedCopies = CopiesOut(b)

\* The copies of the committed borrows of book b less the copies of the
\* committed returns of it.
NetCopies(b) ==
    LET ids == {id \in DOMAIN log : log[id].book = b}
    IN SumOver([id \in ids |-> log[id].copies
                                  - (IF log[id].returns >= 1 THEN log[id].retCopies ELSE 0)],
               ids)

\* C33: whatever the interleaving of borrows, returns and catalog updates of
\* a book, its borrowedCopies is the initial 0 plus the copies of the
\* committed borrows less the copies of the committed returns: no committed
\* change of the counter is lost to a write made from a stale read.
C33_NoLostCounterChange ==
    \A b \in DOMAIN books : books[b].borrowedCopies = NetCopies(b)

\* A borrow and a return have been committed, and a catalog update that had
\* read the book before one of them was refused.
C33_Witness ==
    /\ last.kind = "update" /\ last.res = "EditConflict"
    /\ \E id \in DOMAIN log : log[id].returns = 1 /\ log[id].retCopies > 0

\* C34: of the returns that race on the one Borrowed transaction of a patron
\* and a book at most one succeeds: the step that commits a return finds no
\* return committed on its transaction, which is stored as Borrowed, and
\* takes the copies of this one request off the book's borrowedCopies.
C34_OneReturnWins ==
    [][\A p \in Procs :
          Commits(p, {"return"}) =>
              /\ tid[p] \in DOMAIN log /\ log[tid[p]].returns = 0
              /\ log'[tid[p]].returns = 1
              /\ tid[p] \in DOMAIN txs
              /\ txs[tid[p]].status = TransactionStatusBorrowed
              /\ txs'[tid[p]].status = TransactionStatusReturned
              /\ books'[req[p].book].borrowedCopies =
                    books[req[p].book].borrowedCopies - req[p].copies]_vars

\* Two returns have read the same Borrowed transaction; one of them is
\* committed and the other has ended with the store's conflict.
C34_Witness ==
    /\ AllFree
    /\ last.kind = "return" /\ last.res = "WriteConflict"
    /\ \E id \in DOMAIN log :
          /\ log[id].patron = last.patron /\ log[id].book = last.book
          /\ log[id].returns = 1
          /\ id \in DOMAIN txs /\ txs[id].status = TransactionStatusReturned
          /\ books[log[id].book].borrowedCopies = log[id].copies - log[id].retCopies

C36_ReturnedInTimeNoFine ==
    \A id \in DOMAIN summary.fines :
        (/\ txs[id].status = TransactionStatusReturned
         /\ txs[id].returnedAt <= txs[id].dueDate) => summary.fines[id] = 0

\* C37: authenticate calls the next handler only if the authentication
\* succeeded (a valid token whose subject is a stored patron, or the
\* credentials of a stored admin), and never after it has written an error
\* response.
C37_ForwardOnlyAuthenticated ==
    [][\A h \in Headers, lk \in Lookups, act \in BOOLEAN, perm \in BOOLEAN :
          Authenticate(h, lk, act, perm) =>
              /\ mw'.nexts > 0 => (h \in {"bearer-ok", "basic-ok"} /\ lk = "found")
              /\ mw'.written # <<>> => mw'.nexts = 0]_vars

\* C38: a request that reaches the permission check is forwarded to the
\* handler if its principal holds the permission, and is answered 403 if not:
\* exactly one of the two, never neither.
C38_PermitOrRefuse ==
    [][RequirePermission =>
          \/ /\ mw.permitted
             /\ mw'.stage = "handler" /\ mw'.written = mw.written
          \/ /\ ~mw.permitted
             /\ mw'.stage = "done" /\ mw'.written = Append(mw.written, 403)]_vars


\* C39: when an activation is answered 200, no activation token of the patron
\* it activated is left in the store, and an activation asked for with the
\* plaintext of an earlier successful activation is answered 422 (invalid or
\* expired token).
C39_TokensSpentByActivation ==
    [][/\ \A p \in Procs :
             ActivateDeleteAllForPatron(p) /\ activate'[p].status = 200 =>
                 ~ \E k \in tokens' : /\ k.patronID = activate[p].patronID
                                      /\ k.scope = ScopeActivation
       /\ \A p \in Procs, t \in spent :
             ActivateGetPatronID(p, t) => activate'[p].status = 422]_vars

C39_Witness ==
    \E p \in Procs : /\ activate[p].stage = "done"
                     /\ activate[p].status = 422
                     /\ activate[p].plaintext \in spent
                     /\ \E k \in tokens : k.scope = "authentication"


\* C40: GetAll with a filter that has a bound of returnedAt selects exactly
\* the transactions whose returnedAt is within the bounds of returnedAt and
\* whose borrowedAt is within the bounds of borrowedAt, each range applied to
\* its own field.
C40_RangesAreIndependent ==
    [][\A f \in RangeFilters :
          /\ f.minReturnedAt # NoTime \/ f.maxReturnedAt # NoTime
          /\ TransactionModelGetAll(f)
          => last'.res =
                {i \in DOMAIN txs :
                    /\ WithinRange(txs[i].returnedAt,
                                   [gte |-> f.minReturnedAt, lte |-> f.maxReturnedAt])
                    /\ WithinRange(txs[i].borrowedAt,
                                   [gte |-> f.minBorrowedAt, lte |-> f.maxBorrowedAt])}]_vars

====
